---- MODULE Spec2Model ----
(***************************************************************************)
(* A state-machine model of the generic hash table ADT of prometheus.      *)
(*                                                                         *)
(* Part 1: the open-addressing backend                                     *)
(* (src/src/hash_table_open_addressing.c): one flat slot array of node     *)
(* pointers, a parallel marker (tombstone) array, linear probing.          *)
(*                                                                         *)
(* Part 2: the separate-chaining backend                                   *)
(* (src/src/hash_table_seperate_chaining.c): an array of bucket heads,     *)
(* each a singly linked chain of nodes.  A program links one of the two    *)
(* files; the variable backend says which.                                 *)
(*                                                                         *)
(* Modelling conventions                                                   *)
(*  - a key or data argument is the integer it points to, or NULL;         *)
(*    kattr.compare is int_compare (equality of the integers), kattr.hash  *)
(*    is int_hash / default_hash (the same function in the sources);       *)
(*  - a slot holds a node pointer together with the node it points to:     *)
(*    ptr is NULL, DANGLING (the node has been passed to free()), or the   *)
(*    name of a live node; two slots point to the same node exactly when   *)
(*    their ptr is equal.  Addresses are only ever compared for equality,  *)
(*    so a live node is named by the lowest slot that points to it;        *)
(*  - reading or freeing through a DANGLING pointer, and hash % 0, are     *)
(*    undefined behaviour: the model lets every comparison made through a  *)
(*    dangling pointer answer "equal" or "not equal", lets data read       *)
(*    through it be GARBAGE, and always offers the outcome that the        *)
(*    process is killed; a process that goes on is marked "undefined" and  *)
(*    the model follows it no further, as nothing defines what it does;    *)
(*  - assert() is compiled in (the files include assert.h unless _EMBEDDED *)
(*    is defined); a failing assert kills the process;                     *)
(*  - calloc succeeds, except that calloc(0, ..) may return NULL;          *)
(*  - the E_* names the file uses are the ERROR_* codes of error.h, and    *)
(*    kattr.hash( key, 0 ) is kattr.hash( key ).                           *)
(***************************************************************************)
EXTENDS Integers, FiniteSets, Sequences

\* ----------------------------------------------------------------- bounds
\* Largest capacity passed to hash_table_create / hash_table_reserve.
MaxCap == 3

\* --------------------------------------------------------------- constants
NULL == 0
\* A pointer to memory that has been freed.
DANGLING == -1
\* An indeterminate value read from freed memory.
GARBAGE == -2
\* A non-NULL hash_table_t handle.
TABLE == 1

ERROR_NO_ERROR == 0
ERROR_MEMORY_ALLOCATION_FAILED == 2
ERROR_NULL_PARAMETER == 3
ERROR_NOT_FOUND == 4
ERROR_INVALID_CAPACITY == 5
ERROR_OVERFLOW == 7
ERROR_UNDERFLOW == 8

\* The integers used as keys: under capacity 3 keys 1 and 4 share home slot 0
\* and key 3 has home slot 1; under capacities 2 and 4 all three collide.
Keys == {1, 3, 4}
\* The integers used as data.
Data == {10, 20}
\* Arguments a caller may pass: a pointer to one of the integers, or NULL.
KeyArgs == Keys \cup {NULL}
DataArgs == Data \cup {NULL}
\* Capacities a caller may pass to create and reserve.
CapArgs == -1 .. MaxCap
\* Marks a key whose last successful operation was a remove (history only).
REMOVED == -3
\* Function pointers: a default_ function of attributes.c, a function of
\* the caller.
DEFAULT_FN == 1
USER_FN == 2

VARIABLES
    backend,     \* "open_addressing" or "chaining": the file linked in
    ht,          \* the caller's handle: TABLE, or NULL once destroyed
    hash_table,  \* open addressing: slot -> [ptr, key, data], the pointer
                 \* and its node; chaining: bucket -> the chain of nodes
                 \* [key, data], head first
    marker,      \* slot -> 0 or 1 (tombstone)
    capacity,
    count,
    error_code,  \* the global error_code (error.h)
    process,     \* "running"; "undefined" once a call has run into
                 \* undefined behaviour and gone on (no call is modelled
                 \* from then on); "killed" (trap, fault, failed assert)
    watch,       \* history: the key whose calls are recorded, or NULL
    latest,      \* history: the data of the latest successful insert of
                 \* watch, REMOVED after its successful remove, NULL after
                 \* a clear or when it has never been inserted
    twin,        \* the second table of a run that makes every call on a
                 \* table of each file: the table that is not being
                 \* called, the call to repeat on it and the results so
                 \* far; NULL in the runs on one table
    kattr,       \* the caller's attr_t object for keys: field -> function
    dattr,       \* the caller's attr_t object for data
    queue,       \* struct _queue_type (circular array): [queue, head, tail,
                 \* capacity, count]; NULL in the runs without a queue
    dequeue,     \* struct _dequeue_type (circular array), the same fields
    stack,       \* struct _stack_type (array): [stack, capacity, count]
    ret,         \* the value the latest call on a container returned
    order        \* history: the items a container was given and has not
                 \* given up, first to last

\* What a call on the hash table does not touch.
others == <<twin, kattr, dattr, queue, dequeue, stack, ret, order>>

vars == <<backend, ht, hash_table, marker, capacity, count, error_code,
          process, watch, latest, twin, kattr, dattr,
          queue, dequeue, stack, ret, order>>

\* The runs on hash tables and attribute sets have no container.
NoContainers ==
    /\ queue = NULL
    /\ dequeue = NULL
    /\ stack = NULL
    /\ ret = NULL
    /\ order = NULL

\* ------------------------------------------------------------ pure helpers
RECURSIVE BitXor(_, _)
\* The C operator ^ on non-negative integers.
BitXor(a, b) ==
    IF a = 0 THEN b
    ELSE IF b = 0 THEN a
    ELSE (((a % 2) + (b % 2)) % 2) + 2 * BitXor(a \div 2, b \div 2)

\* int_hash / default_hash: hash = key; high_order = hash & 0xf8000000;
\* hash <<= 5; hash ^= high_order >> 27; hash ^= 1.  For a non-negative int
\* (hash & 0xf8000000) >> 27 is (hash div 2^27) mod 32, and the unsigned long
\* shift does not overflow.
default_hash(key) ==
    LET high_order == (key \div (2 ^ 27)) % 32
    IN  BitXor(BitXor(key * 32, high_order), 1)

\* The int a caller's key address holds. The tests fill numbers[ i ] with
\* i + 1 and pass &numbers[ i ]: the address named a stands for
\* &numbers[ a - 1 ] and holds a. Address 5 is a second int of the caller,
\* outside the array, that holds the same value as address 1.
Numbers(a) == IF a = 5 THEN 1 ELSE a

\* The int a key of the table points to.  int_copy stores a copy, and the
\* model names that copy by its value; default_copy stores the caller's
\* pointer, and the model names it by its address.
Pointee(key) == IF kattr["copy"] = DEFAULT_FN THEN Numbers(key) ELSE key

\* kattr.hash( key ): int_hash and default_hash both hash *(int *)key.
KeyHash(key) == default_hash(Pointee(key))

KeysEqualByValue(a, b) == Pointee(a) = Pointee(b)

\* kattr.compare( a, b ) == 0: int_compare compares the pointed-to ints,
\* default_compare the two addresses.
KeysEqual(a, b) == a = b

Min(S) == CHOOSE x \in S : \A y \in S : x <= y

\* hash_table[ s ] == NULL
NullSlot == [ptr |-> NULL, key |-> NULL, data |-> NULL]

\* hash_table[ s ] points to a node that has been freed.
DanglingSlot == [ptr |-> DANGLING, key |-> GARBAGE, data |-> GARBAGE]

Slots == 0 .. (capacity - 1)

\* hash_table[ s ] != NULL
Occupied(s) == hash_table[s].ptr # NULL

Dangling(s) == hash_table[s].ptr = DANGLING

DanglingSlots == {s \in Slots : Dangling(s)}

\* The answers comparisons through dangling pointers may give in one call:
\* at most one dangling slot (u) compares equal to the key, or none (-1).
Oracles == DanglingSlots \cup {-1}

\* kattr.compare( hash_table[ s ]->key, key ) == 0
KeyMatch(s, key, u) ==
    IF Dangling(s) THEN s = u ELSE KeysEqual(hash_table[s].key, key)

\* (idx + i) % capacity
Probe(idx, i) == (idx + i) % capacity

\* The first probe offset at which the lookup/remove loop finds the key,
\* or -1 when the loop runs to its end.
FindKey(idx, key, u) ==
    LET hits == {i \in 0 .. (capacity - 1) :
                    Occupied(Probe(idx, i)) /\ KeyMatch(Probe(idx, i), key, u)}
    IN  IF hits = {} THEN -1 ELSE Min(hits)

\* Whether a loop that probes offsets 0 .. last reads through a dangling
\* pointer (last = -1 stands for the whole table).
TouchesDangling(idx, last) ==
    \E i \in 0 .. (IF last = -1 THEN capacity - 1 ELSE last) :
        Dangling(Probe(idx, i))

\* free( node p ): every slot that still points to p now dangles.
Invalidate(tbl, p) ==
    [s \in DOMAIN tbl |-> IF tbl[s].ptr = p THEN DanglingSlot ELSE tbl[s]]

\* Name every live node by the lowest slot that points to it.
Normalize(tbl) ==
    [s \in DOMAIN tbl |->
        IF tbl[s].ptr = NULL \/ tbl[s].ptr = DANGLING
        THEN tbl[s]
        ELSE [tbl[s] EXCEPT
                 !.ptr = 1 + Min({t \in DOMAIN tbl : tbl[t].ptr = tbl[s].ptr})]]

\* An empty slot array of c slots, and its marker array (calloc).
EmptyTable(c) == [s \in 0 .. (c - 1) |-> NullSlot]
EmptyMarker(c) == [s \in 0 .. (c - 1) |-> 0]

\* ------------------------------------------------------------- attributes
\* The fields of struct _data_attributes_type.
AttrFields == {"compare", "print", "copy", "free", "hash"}

\* An attr_t object with every field zero (static storage, memset).
ZeroAttr == [f \in AttrFields |-> NULL]

\* attr_init: every field is set to its default_ function.
DefaultAttr == [f \in AttrFields |-> DEFAULT_FN]

\* The attribute sets of the tests: every field set by its setter to a
\* function of the caller (int_compare, int_print, int_copy, int_free,
\* int_hash).
IntAttr == [f \in AttrFields |-> USER_FN]

\* ------------------------------------------------------------------- Init
\* hash_table_create( kattr, dattr, capacity ) with capacity >= 1.
Created ==
    \E c \in 1 .. MaxCap :
        /\ backend = "open_addressing"
        /\ ht = TABLE
        /\ hash_table = EmptyTable(c)
        /\ marker = EmptyMarker(c)
        /\ capacity = c
        /\ count = 0
        /\ error_code = ERROR_NO_ERROR
        /\ process = "running"
        /\ latest = NULL
        /\ twin = NULL
        /\ kattr = IntAttr
        /\ dattr = IntAttr
        /\ NoContainers

\* No history is recorded.
Init == Created /\ watch = NULL

\* The history of one key, any of them, is recorded.
InitHistory == Created /\ watch \in Keys

\* ---------------------------------------------------- outcomes of a call
\* An outcome of a call: the table's fields and error_code as the call
\* leaves them, the value it returns (ret), whether the call ran into
\* undefined behaviour (ub) and whether the process was killed on the way
\* (crash).  Same is the outcome of a call that touches nothing and
\* returns 0.
Same ==
    [crash |-> FALSE, ub |-> FALSE, ht |-> ht, tbl |-> hash_table,
     mk |-> marker, cap |-> capacity, cnt |-> count, err |-> error_code,
     ret |-> 0]

\* A failing call that has already decremented count.
FailWithCountDropped(code, rv) ==
    [Same EXCEPT !.err = code, !.ret = rv, !.cnt = count - 1]

\* error_code = code; return rv;  (nothing else is touched)
FailWith(code, rv) == [Same EXCEPT !.err = code, !.ret = rv]

\* The process is killed in the middle of the call: no table is left.
Died ==
    [crash |-> TRUE, ub |-> FALSE, ht |-> NULL, tbl |-> EmptyTable(0),
     mk |-> EmptyMarker(0), cap |-> 0, cnt |-> 0, err |-> ERROR_NO_ERROR,
     ret |-> NULL]

\* The outcomes of a call that would end as o: when it has run into
\* undefined behaviour it may go on and end as o, or be killed.
Outcomes(o, undefined) ==
    IF undefined THEN {[o EXCEPT !.ub = TRUE], Died} ELSE {o}

\* The state a call leaves, given its outcome o.
Apply(o) ==
    /\ UNCHANGED others
    /\ backend' = backend
    /\ process' = IF o.crash THEN "killed"
                  ELSE IF o.ub THEN "undefined"
                  ELSE process
    /\ ht' = o.ht
    /\ hash_table' = o.tbl
    /\ marker' = o.mk
    /\ capacity' = o.cap
    /\ count' = o.cnt
    /\ error_code' = o.err

\* The history after a call with outcome o: new when the call returned 0,
\* unchanged when it failed, gone with the process.
Record(o, new) ==
    /\ watch' = watch
    /\ latest' = IF o.crash THEN NULL
                 ELSE IF o.ret = 0 THEN new
                 ELSE latest

\* ------------------------------------------------------ hash_table_insert
\* The first probe offset at which the insert loop stops: a free slot, or a
\* slot whose key compares equal; -1 when the loop runs to its end.
InsertStop(idx, key, u) ==
    LET stops == {i \in 0 .. (capacity - 1) :
                     \/ ~Occupied(Probe(idx, i))
                     \/ KeyMatch(Probe(idx, i), key, u)}
    IN  IF stops = {} THEN -1 ELSE Min(stops)

\* hash_table[ s ] = new_node; count++
PlaceNew(s, key, data) ==
    [Same EXCEPT !.tbl = [hash_table EXCEPT ![s] =
                            [ptr |-> s + 1, key |-> key, data |-> data]],
                 !.cnt = count + 1,
                 !.ret = 0]

\* free the old data of the node in slot s, install a copy of the new data
UpdateData(s, data) ==
    [Same EXCEPT !.tbl = [t \in Slots |->
                            IF hash_table[t].ptr = hash_table[s].ptr
                            THEN [hash_table[t] EXCEPT !.data = data]
                            ELSE hash_table[t]],
                 !.ret = 0]

\* The probe loop of insert, with the answers u of the dangling comparisons.
InsertProbe(idx, key, data, u) ==
    LET i == InsertStop(idx, key, u)
        s == Probe(idx, i)
        done ==
            IF i = -1
            THEN \* no free slot and no equal key: new_node is lost
                 [Same EXCEPT !.ret = 0]
            ELSE IF ~Occupied(s)
            THEN PlaceNew(s, key, data)
            ELSE IF Dangling(s)
            THEN \* the update is written into freed memory
                 [Same EXCEPT !.ret = 0]
            ELSE UpdateData(s, data)
    IN  Outcomes(done, TouchesDangling(idx, i))

\* The overflow check off by one: a full table is let through.
TableFullOffByOne == count > capacity

\* if( (*ht)->count >= (*ht)->capacity ), before any probing
TableFull == count >= capacity

InsertOutcomes(key, data) ==
    IF ht = NULL \/ key = NULL \/ data = NULL
    THEN {FailWith(ERROR_NULL_PARAMETER, -1)}
    ELSE IF TableFull
    THEN {FailWith(ERROR_OVERFLOW, -1)}
    ELSE LET idx == KeyHash(key) % capacity
         IN  IF Occupied(idx)
             THEN UNION {InsertProbe(idx, key, data, u) : u \in Oracles}
             ELSE {PlaceNew(idx, key, data)}

hash_table_insert(key, data) ==
    /\ process = "running"
    /\ \E o \in InsertOutcomes(key, data) :
        /\ Apply(o)
        /\ Record(o, IF key = watch THEN data ELSE latest)

\* ------------------------------------------------------ hash_table_lookup
LookupProbe(idx, key, u) ==
    LET i == FindKey(idx, key, u)
        done == IF i = -1
                THEN FailWith(ERROR_NOT_FOUND, NULL)
                ELSE [Same EXCEPT !.ret = hash_table[Probe(idx, i)].data]
    IN  Outcomes(done, TouchesDangling(idx, i))

LookupOutcomes(key) ==
    IF ht = NULL \/ key = NULL
    THEN {FailWith(ERROR_NULL_PARAMETER, NULL)}
    ELSE IF capacity = 0
    THEN \* hash % 0: a trap, or an index outside the (empty) arrays
         Outcomes(FailWith(ERROR_NOT_FOUND, NULL), TRUE)
         \cup Outcomes([Same EXCEPT !.ret = GARBAGE], TRUE)
    ELSE LET idx == KeyHash(key) % capacity
         IN  IF Occupied(idx) \/ marker[idx] # 0
             THEN UNION {LookupProbe(idx, key, u) : u \in Oracles}
             ELSE {FailWith(ERROR_NOT_FOUND, NULL)}

hash_table_lookup(key) ==
    /\ process = "running"
    /\ \E o \in LookupOutcomes(key) : Apply(o) /\ Record(o, latest)

\* ------------------------------------------------------ hash_table_remove
\* A remove that flags the home slot wherever the key was found.
RemoveAtAlwaysMarks(idx, i) ==
    LET s == Probe(idx, i)
        cleared == [hash_table EXCEPT ![s] = NullSlot]
    IN  [Same EXCEPT
            !.tbl = IF Dangling(s) THEN cleared
                    ELSE Normalize(Invalidate(cleared, hash_table[s].ptr)),
            !.cnt = count - 1,
            !.mk = [marker EXCEPT ![idx] = 1],
            !.ret = 0]

\* The matching slot s (probe offset i) is freed and cleared.
RemoveAt(idx, i) ==
    LET s == Probe(idx, i)
        cleared == [hash_table EXCEPT ![s] = NullSlot]
    IN  [Same EXCEPT
            !.tbl = IF Dangling(s) THEN cleared
                    ELSE Normalize(Invalidate(cleared, hash_table[s].ptr)),
            !.cnt = count - 1,
            !.mk = IF i = 0 THEN [marker EXCEPT ![idx] = 1] ELSE marker,
            !.ret = 0]

RemoveProbe(idx, key, u) ==
    LET i == FindKey(idx, key, u)
        done == IF i = -1
                THEN FailWith(ERROR_NOT_FOUND, -1)
                ELSE RemoveAt(idx, i)
    IN  Outcomes(done, TouchesDangling(idx, i))

RemoveOutcomes(key) ==
    IF ht = NULL \/ key = NULL
    THEN {FailWith(ERROR_NULL_PARAMETER, -1)}
    ELSE IF count <= 0
    THEN {FailWith(ERROR_UNDERFLOW, -1)}
    ELSE IF capacity = 0
    THEN {Died}
    ELSE LET idx == KeyHash(key) % capacity
         IN  IF Occupied(idx) \/ marker[idx] # 0
             THEN UNION {RemoveProbe(idx, key, u) : u \in Oracles}
             ELSE {FailWith(ERROR_NOT_FOUND, -1)}

hash_table_remove(key) ==
    /\ process = "running"
    /\ \E o \in RemoveOutcomes(key) :
        /\ Apply(o)
        /\ Record(o, IF key = watch THEN REMOVED ELSE latest)

\* ------------------------------------------------------- hash_table_clear
OccupiedSlots == {s \in Slots : Occupied(s)}

\* Whether the clear loop frees something twice or through a dangling
\* pointer: a dangling slot, or one node stored in two slots.
ClearDoubleFree ==
    \/ DanglingSlots # {}
    \/ \E s, t \in OccupiedSlots : s # t /\ hash_table[s].ptr = hash_table[t].ptr

\* The loop frees the node of every occupied slot, decrements count once
\* per occupied slot and zeroes every marker; the slot itself keeps its
\* (now dangling) pointer: only the local temp is set to NULL.
ClearLoop ==
    [Same EXCEPT
        !.tbl = [s \in Slots |-> IF Occupied(s) THEN DanglingSlot ELSE NullSlot],
        !.mk = EmptyMarker(capacity),
        !.cnt = count - Cardinality(OccupiedSlots),
        !.ret = 0]

ClearOutcomes ==
    IF ht = NULL
    THEN {FailWith(ERROR_NULL_PARAMETER, -1)}
    ELSE IF count = 0
    THEN {[Same EXCEPT !.ret = 0]}
    ELSE IF ClearLoop.cnt # 0
    THEN \* assert( count == 0 )
         {Died}
    ELSE Outcomes(ClearLoop, ClearDoubleFree)

hash_table_clear ==
    /\ process = "running"
    /\ \E o \in ClearOutcomes :
        /\ Apply(o)
        /\ Record(o, IF latest = REMOVED THEN REMOVED ELSE NULL)

\* ----------------------------------------------------- hash_table_reserve
\* The home slots the hash of a key read through a dangling pointer may give.
ReserveOracles(cap) == [DanglingSlots -> 0 .. (cap - 1)]

\* One entry e re-inserted at home slot idx of the new array: into idx when
\* it is free; otherwise into every free slot the j-loop meets (it has no
\* break), that is every free slot of the array.
ReservePlace(new, cap, idx, e) ==
    IF new[idx].ptr # NULL
    THEN [s \in 0 .. (cap - 1) |-> IF new[s].ptr = NULL THEN e ELSE new[s]]
    ELSE [new EXCEPT ![idx] = e]

RECURSIVE ReserveCopy(_, _, _, _)
\* The copy loop from old slot i on; g gives the home slot of dangling entries.
ReserveCopy(i, new, cap, g) ==
    IF i >= capacity
    THEN new
    ELSE IF ~Occupied(i)
    THEN ReserveCopy(i + 1, new, cap, g)
    ELSE LET e == hash_table[i]
             idx == IF Dangling(i) THEN g[i]
                    ELSE KeyHash(e.key) % cap
         IN  ReserveCopy(i + 1, ReservePlace(new, cap, idx, e), cap, g)

\* The arrays are replaced and (*ht)->capacity keeps its old value.
ReserveDoneKeepsCapacity(new, cap) ==
    [Same EXCEPT !.tbl = Normalize(new),
                 !.mk = EmptyMarker(cap),
                 !.ret = 0]

\* The table after the arrays have been replaced.
ReserveDone(new, cap) ==
    [Same EXCEPT !.tbl = Normalize(new),
                 !.mk = EmptyMarker(cap),
                 !.cap = cap,
                 !.ret = 0]

\* A check that lets one entry too many through.
ReserveTooSmallOffByOne(cap) == cap < count - 1

\* if( capacity < (*ht)->count )
ReserveTooSmall(cap) == cap < count

ReserveOutcomes(cap) ==
    IF ht = NULL
    THEN {FailWith(ERROR_NULL_PARAMETER, -1)}
    ELSE IF ReserveTooSmall(cap)
    THEN {FailWith(ERROR_INVALID_CAPACITY, -1)}
    ELSE IF cap = 0
    THEN \* calloc( 0, .. ) may return NULL; hash % 0 for an occupied slot
         {FailWith(ERROR_MEMORY_ALLOCATION_FAILED, -1)}
         \cup (IF OccupiedSlots = {}
               THEN {ReserveDone(EmptyTable(0), 0)}
               ELSE {Died})
    ELSE UNION {Outcomes(ReserveDone(ReserveCopy(0, EmptyTable(cap), cap, g), cap),
                         DanglingSlots # {}) :
                   g \in ReserveOracles(cap)}

hash_table_reserve(cap) ==
    /\ process = "running"
    /\ \E o \in ReserveOutcomes(cap) : Apply(o) /\ Record(o, latest)

\* ----------------------------------------------------- hash_table_destroy
\* hash_table_clear, then free( (*ht)->hash_table ); free( *ht ); *ht = NULL
DestroyOutcomes ==
    IF ht = NULL
    THEN {FailWith(ERROR_NULL_PARAMETER, -1)}
    ELSE {IF o.crash THEN Died
          ELSE [o EXCEPT !.ht = NULL,
                         !.tbl = EmptyTable(0),
                         !.mk = EmptyMarker(0),
                         !.cap = 0,
                         !.ret = 0] : o \in ClearOutcomes}

hash_table_destroy ==
    /\ process = "running"
    /\ \E o \in DestroyOutcomes :
        /\ Apply(o)
        /\ Record(o, NULL)

\* ------------------------------------------------------ hash_table_create
\* The caller makes a new table once the old one has been destroyed.
CreateOutcomes(cap) ==
    IF cap < 1
    THEN {FailWith(ERROR_INVALID_CAPACITY, NULL)}
    ELSE {[Same EXCEPT !.ht = TABLE,
                       !.tbl = EmptyTable(cap),
                       !.mk = EmptyMarker(cap),
                       !.cap = cap,
                       !.cnt = 0,
                       !.ret = TABLE]}

hash_table_create(cap) ==
    /\ process = "running"
    /\ ht = NULL
    /\ \E o \in CreateOutcomes(cap) : Apply(o) /\ Record(o, latest)

\* ------------------------------- hash_table_load / _capacity / _count
\* (double)ht->count / ht->capacity as the fraction num / den; a zero den
\* stands for the NaN (0.0 / 0.0) or infinity the division gives.
Load == [num |-> count, den |-> capacity]

LoadOutcomes ==
    IF ht = NULL
    THEN {FailWith(ERROR_NULL_PARAMETER, -1)}
    ELSE {[Same EXCEPT !.ret = Load]}

hash_table_load ==
    /\ process = "running"
    /\ \E o \in LoadOutcomes : Apply(o) /\ UNCHANGED <<watch, latest>>

CapacityOutcomes ==
    IF ht = NULL
    THEN {FailWith(ERROR_NULL_PARAMETER, -1)}
    ELSE {[Same EXCEPT !.ret = capacity]}

hash_table_capacity ==
    /\ process = "running"
    /\ \E o \in CapacityOutcomes : Apply(o) /\ UNCHANGED <<watch, latest>>

CountOutcomes ==
    IF ht = NULL
    THEN {FailWith(ERROR_NULL_PARAMETER, -1)}
    ELSE {[Same EXCEPT !.ret = count]}

hash_table_count ==
    /\ process = "running"
    /\ \E o \in CountOutcomes : Apply(o) /\ UNCHANGED <<watch, latest>>

\* ------------------------------------------------------------------- Next
Next ==
    \/ \E key \in KeyArgs, data \in DataArgs : hash_table_insert(key, data)
    \/ \E key \in KeyArgs : hash_table_lookup(key)
    \/ \E key \in KeyArgs : hash_table_remove(key)
    \/ hash_table_clear
    \/ \E cap \in CapArgs : hash_table_reserve(cap)
    \/ hash_table_destroy
    \/ \E cap \in CapArgs : hash_table_create(cap)
    \/ hash_table_load
    \/ hash_table_capacity
    \/ hash_table_count

Spec == Init /\ [][Next]_vars

SpecHistory == InitHistory /\ [][Next]_vars

\* ====================================================== separate chaining
\* The operations of hash_table_seperate_chaining.c.  hash_table[ b ] is the
\* chain of bucket b, head first; the table has no marker array.

\* A node that has been passed to free() and is still linked.
FreedNode == [key |-> GARBAGE, data |-> GARBAGE]

\* calloc( capacity, .. ): every bucket head is NULL.
EmptyBuckets(c) == [b \in 0 .. (c - 1) |-> << >>]

\* The buckets whose chain runs into freed memory.
FreedBuckets ==
    {b \in Slots : \E i \in 1 .. Len(hash_table[b]) : hash_table[b][i] = FreedNode}

\* The position in chain c at which a walk that compares keys stops: the
\* first node that holds the key or has been freed; 0 when the walk reaches
\* the end of the chain.
ChainFind(c, key) ==
    LET stops == {i \in 1 .. Len(c) : c[i] = FreedNode \/ KeysEqual(c[i].key, key)}
    IN  IF stops = {} THEN 0 ELSE Min(stops)

\* Chain c without the node at position i.
ChainUnlink(c, i) == SubSeq(c, 1, i - 1) \o SubSeq(c, i + 1, Len(c))

\* hash_table_create of the chaining file, with capacity >= 1.
CreatedChaining ==
    \E c \in 1 .. MaxCap :
        /\ backend = "chaining"
        /\ ht = TABLE
        /\ hash_table = EmptyBuckets(c)
        /\ marker = EmptyMarker(0)
        /\ capacity = c
        /\ count = 0
        /\ error_code = ERROR_NO_ERROR
        /\ process = "running"
        /\ latest = NULL
        /\ twin = NULL
        /\ kattr = IntAttr
        /\ dattr = IntAttr
        /\ NoContainers

\* A chaining table; the history of one key, any of them, is recorded.
InitChaining == CreatedChaining /\ watch \in Keys

\* --------------------------------------------- hash_table_insert (chaining)
\* new_node->next = hash_table[ idx ]; hash_table[ idx ] = new_node; count++
ChainPrepend(idx, key, data) ==
    [Same EXCEPT
        !.tbl = [hash_table EXCEPT
                    ![idx] = <<[key |-> key, data |-> data]>> \o hash_table[idx]],
        !.cnt = count + 1,
        !.ret = 0]

\* free the old data of node i of bucket idx, install a copy of the new data
ChainUpdate(idx, i, data) ==
    [Same EXCEPT !.tbl = [hash_table EXCEPT ![idx][i].data = data],
                 !.ret = 0]

ChainInsertOutcomes(key, data) ==
    IF ht = NULL \/ key = NULL \/ data = NULL
    THEN {FailWith(ERROR_NULL_PARAMETER, -1)}
    ELSE IF capacity = 0
    THEN \* hash % 0
         Outcomes([Same EXCEPT !.ret = 0], TRUE)
    ELSE LET idx == KeyHash(key) % capacity
             i == ChainFind(hash_table[idx], key)
         IN  IF i = 0
             THEN {ChainPrepend(idx, key, data)}
             ELSE IF hash_table[idx][i] = FreedNode
             THEN \* the walk reads freed memory: it may find the key there
                  \* or run off the chain
                  Outcomes([Same EXCEPT !.ret = 0], TRUE)
                  \cup Outcomes(ChainPrepend(idx, key, data), TRUE)
             ELSE {ChainUpdate(idx, i, data)}

chaining_hash_table_insert(key, data) ==
    /\ process = "running"
    /\ \E o \in ChainInsertOutcomes(key, data) :
        /\ Apply(o)
        /\ Record(o, IF key = watch THEN data ELSE latest)

\* --------------------------------------------- hash_table_lookup (chaining)
ChainLookupOutcomes(key) ==
    IF ht = NULL \/ key = NULL
    THEN {FailWith(ERROR_NULL_PARAMETER, NULL)}
    ELSE IF capacity = 0
    THEN \* hash % 0
         Outcomes(FailWith(ERROR_NOT_FOUND, NULL), TRUE)
         \cup Outcomes([Same EXCEPT !.ret = GARBAGE], TRUE)
    ELSE LET idx == KeyHash(key) % capacity
             i == ChainFind(hash_table[idx], key)
         IN  IF i = 0
             THEN {FailWith(ERROR_NOT_FOUND, NULL)}
             ELSE IF hash_table[idx][i] = FreedNode
             THEN Outcomes(FailWith(ERROR_NOT_FOUND, NULL), TRUE)
                  \cup Outcomes([Same EXCEPT !.ret = GARBAGE], TRUE)
             ELSE {[Same EXCEPT !.ret = hash_table[idx][i].data]}

chaining_hash_table_lookup(key) ==
    /\ process = "running"
    /\ \E o \in ChainLookupOutcomes(key) : Apply(o) /\ Record(o, latest)

\* --------------------------------------------- hash_table_remove (chaining)
\* Node i of bucket idx is unlinked and freed.
ChainRemoveAt(idx, i) ==
    [Same EXCEPT
        !.tbl = [hash_table EXCEPT ![idx] = ChainUnlink(hash_table[idx], i)],
        !.cnt = count - 1,
        !.ret = 0]

ChainRemoveOutcomes(key) ==
    IF ht = NULL \/ key = NULL
    THEN {FailWith(ERROR_NULL_PARAMETER, -1)}
    ELSE IF count <= 0
    THEN {FailWith(ERROR_UNDERFLOW, -1)}
    ELSE IF capacity = 0
    THEN {Died}
    ELSE LET idx == KeyHash(key) % capacity
             i == ChainFind(hash_table[idx], key)
         IN  IF i = 0
             THEN {FailWith(ERROR_NOT_FOUND, -1)}
             ELSE IF hash_table[idx][i] = FreedNode
             THEN Outcomes(ChainRemoveAt(idx, i), TRUE)
                  \cup Outcomes(FailWith(ERROR_NOT_FOUND, -1), TRUE)
             ELSE {ChainRemoveAt(idx, i)}

chaining_hash_table_remove(key) ==
    /\ process = "running"
    /\ \E o \in ChainRemoveOutcomes(key) :
        /\ Apply(o)
        /\ Record(o, IF key = watch THEN REMOVED ELSE latest)

\* ---------------------------------------------- hash_table_clear (chaining)
RECURSIVE ChainNodes(_)
\* The number of nodes linked into buckets b .. capacity - 1.
ChainNodes(b) ==
    IF b >= capacity THEN 0 ELSE Len(hash_table[b]) + ChainNodes(b + 1)

\* The loop frees every node of every chain and decrements count once per
\* node; the bucket heads keep their (now dangling) pointers: only the
\* locals current and temp change.
ChainClearLoop ==
    [Same EXCEPT
        !.tbl = [b \in Slots |->
                    IF hash_table[b] = << >> THEN << >> ELSE <<FreedNode>>],
        !.cnt = count - ChainNodes(0),
        !.ret = 0]

ChainClearOutcomes ==
    IF ht = NULL
    THEN {FailWith(ERROR_NULL_PARAMETER, -1)}
    ELSE IF count = 0
    THEN {[Same EXCEPT !.ret = 0]}
    ELSE IF FreedBuckets # {}
    THEN \* a chain that was freed before is walked and freed again
         Outcomes([ChainClearLoop EXCEPT !.cnt = 0], TRUE)
    ELSE IF ChainClearLoop.cnt # 0
    THEN \* assert( count == 0 )
         {Died}
    ELSE {ChainClearLoop}

chaining_hash_table_clear ==
    /\ process = "running"
    /\ \E o \in ChainClearOutcomes :
        /\ Apply(o)
        /\ Record(o, IF latest = REMOVED THEN REMOVED ELSE NULL)

\* -------------------------------------------- hash_table_reserve (chaining)
RECURSIVE ChainRelinkLosesChain(_, _, _, _, _)
\* The copy loop with temp->next = NULL on every node: a node that collides
\* takes the place of the chain already linked into its bucket.
ChainRelinkLosesChain(b, i, new, cap, g) ==
    IF b >= capacity
    THEN new
    ELSE IF i > Len(hash_table[b])
    THEN ChainRelinkLosesChain(b + 1, 1, new, cap, g)
    ELSE LET n == hash_table[b][i]
             idx == IF n = FreedNode THEN g ELSE KeyHash(n.key) % cap
         IN  ChainRelinkLosesChain(b, i + 1, [new EXCEPT ![idx] = <<n>>], cap, g)

RECURSIVE ChainRelink(_, _, _, _, _)
\* The copy loop from node i of old bucket b on: each node is unlinked and
\* prepended to the chain of its bucket under the new modulus; g is the
\* bucket a node read from freed memory goes to.
ChainRelink(b, i, new, cap, g) ==
    IF b >= capacity
    THEN new
    ELSE IF i > Len(hash_table[b])
    THEN ChainRelink(b + 1, 1, new, cap, g)
    ELSE LET n == hash_table[b][i]
             idx == IF n = FreedNode THEN g ELSE KeyHash(n.key) % cap
         IN  ChainRelink(b, i + 1, [new EXCEPT ![idx] = <<n>> \o new[idx]], cap, g)

\* The bucket array is replaced and (*ht)->capacity keeps its old value.
ChainReserveDoneKeepsCapacity(new, cap) ==
    [Same EXCEPT !.tbl = new, !.ret = 0]

\* The table after the bucket array has been replaced.
ChainReserveDone(new, cap) ==
    [Same EXCEPT !.tbl = new, !.cap = cap, !.ret = 0]

ChainReserveOutcomes(cap) ==
    IF ht = NULL
    THEN {FailWith(ERROR_NULL_PARAMETER, -1)}
    ELSE IF ReserveTooSmall(cap)
    THEN {FailWith(ERROR_INVALID_CAPACITY, -1)}
    ELSE IF cap = 0
    THEN \* calloc( 0, .. ) may return NULL: assert( new_hash_table ); a
         \* node left in a chain is hashed and reduced % 0
         {Died}
         \cup Outcomes(ChainReserveDone(EmptyBuckets(0), 0), FreedBuckets # {})
    ELSE UNION {Outcomes(ChainReserveDone(
                             ChainRelink(0, 1, EmptyBuckets(cap), cap, g), cap),
                         FreedBuckets # {}) :
                   g \in 0 .. (cap - 1)}

chaining_hash_table_reserve(cap) ==
    /\ process = "running"
    /\ \E o \in ChainReserveOutcomes(cap) : Apply(o) /\ Record(o, latest)

\* -------------------------------------------- hash_table_destroy (chaining)
\* hash_table_clear, then free( (*ht)->hash_table ); free( *ht ); *ht = NULL
ChainDestroyOutcomes ==
    IF ht = NULL
    THEN {FailWith(ERROR_NULL_PARAMETER, -1)}
    ELSE {IF o.crash THEN Died
          ELSE [o EXCEPT !.ht = NULL,
                         !.tbl = EmptyBuckets(0),
                         !.cap = 0,
                         !.ret = 0] : o \in ChainClearOutcomes}

chaining_hash_table_destroy ==
    /\ process = "running"
    /\ \E o \in ChainDestroyOutcomes :
        /\ Apply(o)
        /\ Record(o, NULL)

\* --------------------------------------------- hash_table_create (chaining)
ChainCreateOutcomes(cap) ==
    IF cap < 1
    THEN {FailWith(ERROR_INVALID_CAPACITY, NULL)}
    ELSE {[Same EXCEPT !.ht = TABLE,
                       !.tbl = EmptyBuckets(cap),
                       !.cap = cap,
                       !.cnt = 0,
                       !.ret = TABLE]}

chaining_hash_table_create(cap) ==
    /\ process = "running"
    /\ ht = NULL
    /\ \E o \in ChainCreateOutcomes(cap) : Apply(o) /\ Record(o, latest)

\* hash_table_load, hash_table_capacity and hash_table_count are the same
\* text in both files.
NextChaining ==
    \/ \E key \in KeyArgs, data \in DataArgs :
           chaining_hash_table_insert(key, data)
    \/ \E key \in KeyArgs : chaining_hash_table_lookup(key)
    \/ \E key \in KeyArgs : chaining_hash_table_remove(key)
    \/ chaining_hash_table_clear
    \/ \E cap \in CapArgs : chaining_hash_table_reserve(cap)
    \/ chaining_hash_table_destroy
    \/ \E cap \in CapArgs : chaining_hash_table_create(cap)
    \/ hash_table_load
    \/ hash_table_capacity
    \/ hash_table_count

SpecChaining == InitChaining /\ [][NextChaining]_vars

\* Either backend.
InitBoth == Init \/ InitChaining

NextBoth ==
    \/ backend = "open_addressing" /\ Next
    \/ backend = "chaining" /\ NextChaining

SpecBoth == InitBoth /\ [][NextBoth]_vars

\* ================================================================ properties
\* What the properties say about a call is said about its outcomes: "the
\* call returns v" means that every outcome the call has in the current
\* state is a defined one (no undefined behaviour on the way) returning v.

\* Slot s holds a pointer to a node that has not been freed.
Live(s) == hash_table[s].ptr # NULL /\ hash_table[s].ptr # DANGLING

LiveSlots == {s \in Slots : Live(s)}

\* The nodes that are allocated and reachable from the slot array.
LiveNodes == {hash_table[s].ptr : s \in LiveSlots}

\* Key k is stored in the table.
KeyStored(k) == \E s \in LiveSlots : hash_table[s].key = k

\* hash_table_lookup( ht, key ) has defined behaviour in the current state.
LookupDefined(key) ==
    \A o \in LookupOutcomes(key) : ~o.crash /\ ~o.ub

\* hash_table_lookup( ht, key ) returns v.
LookupReturns(key, v) ==
    \A o \in LookupOutcomes(key) : ~o.crash /\ ~o.ub /\ o.ret = v

\* The step is a call with outcome o, defined from start to end.
DefinedStep(o) ==
    /\ process = "running"
    /\ ~o.crash
    /\ ~o.ub
    /\ Apply(o)

\* C1: in every state reached by defined calls, no two entries of the
\* open-addressing table hold keys that compare equal (two slots that hold
\* two different nodes never hold the same key).
C1_UniqueKeys ==
    (process = "running") =>
        \A s, t \in LiveSlots :
            hash_table[s].ptr # hash_table[t].ptr =>
                hash_table[s].key # hash_table[t].key

\* C2: whenever the latest successful insert( k, v ) of the watched key k
\* has not been followed by a remove( k ) or a clear, lookup( k ) returns v
\* (states reached through undefined behaviour are left aside).
C2_RoundTrip ==
    (process = "running" /\ latest \in Data /\ LookupDefined(watch)) =>
        LookupReturns(watch, latest)

\* C3: a successful remove( k1 ) never changes what lookup( k2 ) returns
\* for a different key k2 whose lookup returned data before the remove.
C3_RemoveKeepsOthers ==
    [][\A k1 \in Keys : \A o \in RemoveOutcomes(k1) :
          (DefinedStep(o) /\ o.ret = 0) =>
              \A k2 \in Keys \ {k1} : \A v \in Data :
                  (LookupReturns(k2, v) /\ LookupDefined(k2)') =>
                      LookupReturns(k2, v)']_vars

\* C4: after a successful reserve( cap ) with cap >= count, every key whose
\* lookup returned data before the call is still returned with the same data.
C4_ReservePreserves ==
    [][\A cap \in CapArgs : \A o \in ReserveOutcomes(cap) :
          (DefinedStep(o) /\ cap >= count /\ o.ret = 0) =>
              \A k \in Keys : \A v \in Data :
                  (LookupReturns(k, v) /\ LookupDefined(k)') =>
                      LookupReturns(k, v)']_vars

\* C5: whenever key k is stored in the table, insert( k, v ) returns 0 and
\* the lookup( k ) that follows returns v.
C5_InsertUpdates ==
    [][\A k \in Keys : \A v \in Data : \A o \in InsertOutcomes(k, v) :
          (DefinedStep(o) /\ KeyStored(k)) =>
              /\ o.ret = 0
              /\ (LookupDefined(k)' => LookupReturns(k, v)')]_vars

\* C6: inserting a key that is stored in the table never changes count.
C6_InsertPresentKeepsCount ==
    (process = "running") =>
        \A k \in Keys : \A v \in Data : \A o \in InsertOutcomes(k, v) :
            (KeyStored(k) /\ ~o.crash /\ ~o.ub) => o.cnt = count

\* C7: after remove( k ) of the watched key k has returned 0, lookup( k )
\* returns NULL for as long as k is not inserted again.
C7_RemovedNotFound ==
    (process = "running" /\ latest = REMOVED /\ LookupDefined(watch)) =>
        LookupReturns(watch, NULL)

\* A load inside [0, 1]; 0.0 / 0.0 (NaN) is not.
WithinUnit(q) == q.den > 0 /\ 0 <= q.num /\ q.num <= q.den

\* C8: 0 <= count <= capacity in every reachable state of the
\* open-addressing table, and the load of the table is within [0, 1].
C8_CountAndLoadBounded ==
    (process = "running" /\ ht = TABLE) =>
        /\ 0 <= count
        /\ count <= capacity
        /\ WithinUnit(Load)

\* C9: on a full table (count = capacity) insert of a key and data fails
\* with ERROR_OVERFLOW (returns -1) and leaves the slots, the markers,
\* count and capacity as they were.
C9_InsertFullOverflows ==
    (ht = TABLE /\ count = capacity) =>
        \A k \in Keys : \A v \in Data : \A o \in InsertOutcomes(k, v) :
            /\ ~o.crash
            /\ o.ret = -1
            /\ o.err = ERROR_OVERFLOW
            /\ o.tbl = hash_table
            /\ o.mk = marker
            /\ o.cnt = count
            /\ o.cap = capacity

\* C9 witness: an insert has just failed with ERROR_OVERFLOW on a full table
\* that holds at least one key.
C9_Witness ==
    /\ process = "running"
    /\ ht = TABLE
    /\ capacity >= 1
    /\ count = capacity
    /\ LiveSlots # {}
    /\ error_code = ERROR_OVERFLOW

\* C10: count equals the number of live key/data pairs stored in the table,
\* however they are counted: the slots that hold a pointer, the slots that
\* hold a live node, or the live nodes.
C10_CountIsLivePairs ==
    (process = "running" /\ ht = TABLE) =>
        \/ count = Cardinality(OccupiedSlots)
        \/ count = Cardinality(LiveSlots)
        \/ count = Cardinality(LiveNodes)

\* ------------------------------------------ properties, separate chaining
\* hash_table_lookup( ht, key ) of the chaining file has defined behaviour.
ChainLookupDefined(key) ==
    \A o \in ChainLookupOutcomes(key) : ~o.crash /\ ~o.ub

\* hash_table_lookup( ht, key ) of the chaining file returns v.
ChainLookupReturns(key, v) ==
    \A o \in ChainLookupOutcomes(key) : ~o.crash /\ ~o.ub /\ o.ret = v

\* Key k is stored in a chain.
ChainKeyStored(k) ==
    \E b \in Slots : \E i \in 1 .. Len(hash_table[b]) : hash_table[b][i].key = k

\* C11: chaining table: after a reserve( cap ) that returns 0, count is what
\* it was and every key whose lookup returned data before the call is
\* returned with the same data.
C11_ChainReservePreserves ==
    [][\A cap \in CapArgs : \A o \in ChainReserveOutcomes(cap) :
          (DefinedStep(o) /\ o.ret = 0) =>
              /\ count' = count
              /\ \A k \in Keys : \A v \in Data :
                    ChainLookupReturns(k, v) => ChainLookupReturns(k, v)']_vars

\* C11 witness: a table of capacity 2 in which two stored keys share one
\* chain, as a reserve from capacity 3 to 2 leaves keys 1 and 3.
C11_Witness ==
    /\ process = "running"
    /\ backend = "chaining"
    /\ capacity = 2
    /\ count = 2
    /\ Len(hash_table[1]) = 2
    /\ ChainKeyStored(1)
    /\ ChainKeyStored(3)
    /\ \E v \in Data : ChainLookupReturns(1, v)
    /\ \E v \in Data : ChainLookupReturns(3, v)

\* C12: chaining table, sequences of insert, remove and reserve (no chain
\* has been freed by a clear): lookup of the watched key returns the data of
\* its latest successful insert when it was not removed since, and NULL
\* (not found) when it was never inserted or was removed since.
C12_ChainRoundTrip ==
    (process = "running" /\ ht = TABLE /\ FreedBuckets = {}) =>
        /\ latest \in Data => ChainLookupReturns(watch, latest)
        /\ latest \in {NULL, REMOVED} => ChainLookupReturns(watch, NULL)

\* The same round trip on the tables whose capacity is at least 1.
ChainRoundTripFromCapacityOne ==
    (process = "running" /\ ht = TABLE /\ FreedBuckets = {} /\ capacity >= 1) =>
        /\ latest \in Data => ChainLookupReturns(watch, latest)
        /\ latest \in {NULL, REMOVED} => ChainLookupReturns(watch, NULL)

\* C13: chaining table: insert of a key and data never fails with
\* ERROR_OVERFLOW, whatever count and capacity are, and every insert of a
\* key that is not stored returns 0 and leaves count one higher.
C13_ChainInsertNeverOverflows ==
    (process = "running" /\ ht = TABLE) =>
        \A k \in Keys : \A v \in Data : \A o \in ChainInsertOutcomes(k, v) :
            /\ ~o.crash
            /\ ~o.ub
            /\ ~(o.ret = -1 /\ o.err = ERROR_OVERFLOW)
            /\ ~ChainKeyStored(k) => (o.ret = 0 /\ o.cnt = count + 1)

\* The same on the tables of capacity at least 1 in which no clear has left
\* a freed chain behind.
ChainInsertFromCapacityOne ==
    (process = "running" /\ ht = TABLE /\ FreedBuckets = {} /\ capacity >= 1) =>
        \A k \in Keys : \A v \in Data : \A o \in ChainInsertOutcomes(k, v) :
            /\ ~o.crash
            /\ ~o.ub
            /\ ~(o.ret = -1 /\ o.err = ERROR_OVERFLOW)
            /\ ~ChainKeyStored(k) => (o.ret = 0 /\ o.cnt = count + 1)

\* ------------------------------------------------ properties, both tables
\* The calls of hash_table.h as answered by the file that is linked in.
TableInsertOutcomes(key, data) ==
    IF backend = "chaining"
    THEN ChainInsertOutcomes(key, data)
    ELSE InsertOutcomes(key, data)

TableLookupOutcomes(key) ==
    IF backend = "chaining" THEN ChainLookupOutcomes(key) ELSE LookupOutcomes(key)

TableRemoveOutcomes(key) ==
    IF backend = "chaining" THEN ChainRemoveOutcomes(key) ELSE RemoveOutcomes(key)

TableClearOutcomes ==
    IF backend = "chaining" THEN ChainClearOutcomes ELSE ClearOutcomes

TableReserveOutcomes(cap) ==
    IF backend = "chaining" THEN ChainReserveOutcomes(cap) ELSE ReserveOutcomes(cap)

TableDestroyOutcomes ==
    IF backend = "chaining" THEN ChainDestroyOutcomes ELSE DestroyOutcomes

TableCreateOutcomes(cap) ==
    IF backend = "chaining" THEN ChainCreateOutcomes(cap) ELSE CreateOutcomes(cap)

\* hash_table_lookup( ht, key ) returns v, whichever file is linked in.
TableLookupReturns(key, v) ==
    \A o \in TableLookupOutcomes(key) : ~o.crash /\ ~o.ub /\ o.ret = v

\* C14: after a clear that returns 0 the table is empty and usable as a
\* fresh table of the same capacity, with either file: count is 0, capacity
\* is what it was, lookup of every key returns NULL, and insert of every key
\* and data returns 0 with count 1.
C14_ClearEmpties ==
    [][\A o \in TableClearOutcomes :
          (DefinedStep(o) /\ o.ret = 0 /\ capacity >= 1) =>
              /\ count' = 0
              /\ capacity' = capacity
              /\ \A k \in Keys : TableLookupReturns(k, NULL)'
              /\ \A k \in Keys : \A v \in Data :
                    \A n \in TableInsertOutcomes(k, v)' :
                        ~n.crash /\ ~n.ub /\ n.ret = 0 /\ n.cnt = 1]_vars

\* Key k is stored in the table, whichever file is linked in.
TableKeyStored(k) ==
    IF backend = "chaining" THEN ChainKeyStored(k) ELSE KeyStored(k)

\* C15: remove( k ) of a key that is not stored in the table, the empty
\* table included, returns -1 with error_code = ERROR_NOT_FOUND and leaves
\* the slots, the markers, count and capacity as they were.
C15_RemoveAbsentNotFound ==
    (process = "running" /\ ht = TABLE) =>
        \A k \in Keys : \A o \in TableRemoveOutcomes(k) :
            ~TableKeyStored(k) =>
                /\ ~o.crash
                /\ ~o.ub
                /\ o.ret = -1
                /\ o.err = ERROR_NOT_FOUND
                /\ o.tbl = hash_table
                /\ o.mk = marker
                /\ o.cnt = count
                /\ o.cap = capacity

\* No slot or bucket of the table points at a freed node.
NothingFreed ==
    IF backend = "chaining" THEN FreedBuckets = {} ELSE DanglingSlots = {}

\* What the code does on the tables a clear has left no freed node in:
\* ERROR_UNDERFLOW when count <= 0, ERROR_NOT_FOUND otherwise.
RemoveAbsentAsCoded ==
    (process = "running" /\ ht = TABLE /\ NothingFreed) =>
        \A k \in Keys : \A o \in TableRemoveOutcomes(k) :
            ~TableKeyStored(k) =>
                /\ ~o.crash
                /\ ~o.ub
                /\ o.ret = -1
                /\ o.err = IF count <= 0 THEN ERROR_UNDERFLOW ELSE ERROR_NOT_FOUND
                /\ o.tbl = hash_table
                /\ o.mk = marker
                /\ o.cnt = count
                /\ o.cap = capacity

\* C16: reserve( cap ) with cap < count returns -1 with error_code =
\* ERROR_INVALID_CAPACITY and leaves capacity, count, the slots (every
\* entry) and the markers as they were, with either file.
C16_ReserveBelowCountRejected ==
    (process = "running" /\ ht = TABLE) =>
        \A cap \in CapArgs : \A o \in TableReserveOutcomes(cap) :
            cap < count =>
                /\ ~o.crash
                /\ ~o.ub
                /\ o.ret = -1
                /\ o.err = ERROR_INVALID_CAPACITY
                /\ o.cap = capacity
                /\ o.cnt = count
                /\ o.tbl = hash_table
                /\ o.mk = marker

\* C16 witness: a reserve has just been rejected on a table that holds at
\* least two entries, so that a capacity of 1 or more was too small.
C16_Witness ==
    /\ process = "running"
    /\ ht = TABLE
    /\ count >= 2
    /\ \E k1, k2 \in Keys : k1 # k2 /\ TableKeyStored(k1) /\ TableKeyStored(k2)
    /\ error_code = ERROR_INVALID_CAPACITY

\* C17: with either file, create( capacity < 1 ) fails with
\* ERROR_INVALID_CAPACITY and no call, reserve included, leaves a live table
\* with a capacity below 1: capacity >= 1 in every reachable state in which
\* the handle is not NULL.
C17_CapacityAtLeastOne ==
    (process = "running") =>
        /\ ht = TABLE => capacity >= 1
        /\ ht = NULL =>
              \A cap \in CapArgs : \A o \in TableCreateOutcomes(cap) :
                  cap < 1 => (o.ht = NULL /\ o.err = ERROR_INVALID_CAPACITY)

\* C18: with either file the capacity of a live table is the one passed to
\* create or to the latest reserve that returned 0: a successful create or
\* reserve( cap ) leaves capacity = cap, every other call that returns
\* (insert, lookup, remove, clear, a failed reserve or create, calls with
\* NULL arguments) leaves capacity as it was, and capacity( ht ) returns it.
C18_CapacityOnlyByReserve ==
    (process = "running") =>
        /\ ht = TABLE =>
            /\ \A k \in KeyArgs : \A v \in DataArgs :
                  \A o \in TableInsertOutcomes(k, v) : ~o.crash => o.cap = capacity
            /\ \A k \in KeyArgs : \A o \in TableLookupOutcomes(k) :
                  ~o.crash => o.cap = capacity
            /\ \A k \in KeyArgs : \A o \in TableRemoveOutcomes(k) :
                  ~o.crash => o.cap = capacity
            /\ \A o \in TableClearOutcomes : ~o.crash => o.cap = capacity
            /\ \A cap \in CapArgs : \A o \in TableReserveOutcomes(cap) :
                  ~o.crash => o.cap = IF o.ret = 0 THEN cap ELSE capacity
            /\ \A o \in CapacityOutcomes : o.ret = capacity /\ o.cap = capacity
        /\ ht = NULL =>
            \A cap \in CapArgs : \A o \in TableCreateOutcomes(cap) :
                o.cap = IF o.ht = TABLE THEN cap ELSE capacity

\* C18 witness: reserve( 0 ) has returned 0 on an open-addressing table
\* created with a capacity of 1 or more, and the insert that followed has
\* failed with ERROR_OVERFLOW: the capacity is the reserved one.
C18_Witness ==
    /\ process = "running"
    /\ backend = "open_addressing"
    /\ ht = TABLE
    /\ capacity = 0
    /\ error_code = ERROR_OVERFLOW

\* The nodes, each with its key copy and its data copy, that slot array tbl
\* points to and that have not been freed.
NodesHeld(tbl) ==
    {tbl[s].ptr : s \in DOMAIN tbl} \ {NULL, DANGLING}

\* C19: open-addressing table: every key and data copy is freed exactly
\* once.  Never twice: in no state of a table that holds entries would the
\* loop of clear (and so destroy) free a node through two slots or through
\* a pointer to a node it has freed before.  None unreleased: a reserve that
\* returns 0 keeps every node of the old array in the new one, for the old
\* array is freed and a node left out can never be freed.
C19_CopiesFreedOnce ==
    (process = "running" /\ ht = TABLE) =>
        /\ count # 0 => ~ClearDoubleFree
        /\ \A cap \in CapArgs : \A o \in ReserveOutcomes(cap) :
              (~o.crash /\ ~o.ub /\ o.ret = 0) =>
                  Cardinality(NodesHeld(o.tbl)) = Cardinality(LiveNodes)

\* The outcomes of every call through the handle except create.
CallsThroughHandle ==
    UNION {TableDestroyOutcomes, TableClearOutcomes,
           LoadOutcomes, CapacityOutcomes, CountOutcomes,
           UNION {TableInsertOutcomes(k, v) : k \in KeyArgs, v \in DataArgs},
           UNION {TableLookupOutcomes(k) : k \in KeyArgs},
           UNION {TableRemoveOutcomes(k) : k \in KeyArgs},
           UNION {TableReserveOutcomes(cap) : cap \in CapArgs}}

\* Once the handle is NULL every call through it fails with
\* ERROR_NULL_PARAMETER and changes nothing else.
FailsNullParameter(o) ==
    /\ ~o.crash
    /\ ~o.ub
    /\ o.ret \in {-1, NULL}
    /\ o = FailWith(ERROR_NULL_PARAMETER, o.ret)

\* C20: with either file, destroy of a live table returns 0 and leaves the
\* handle NULL (the entries and the table are freed on the way), and once
\* the handle is NULL every later call through it, destroy included, fails
\* with ERROR_NULL_PARAMETER.
C20_DestroyedOnce ==
    (process = "running") =>
        /\ ht = TABLE =>
              \A o \in TableDestroyOutcomes :
                  ~o.crash /\ ~o.ub /\ o.ret = 0 /\ o.ht = NULL
        /\ ht = NULL => \A o \in CallsThroughHandle : FailsNullParameter(o)

\* The part that holds whatever the table: a destroy that returns leaves the
\* handle NULL, and a NULL handle makes every call fail.
DestroyThatReturns ==
    (process = "running") =>
        /\ ht = TABLE =>
              \A o \in TableDestroyOutcomes :
                  ~o.crash => (o.ret = 0 /\ o.ht = NULL)
        /\ ht = NULL => \A o \in CallsThroughHandle : FailsNullParameter(o)

\* The outcomes of the calls that report failure by returning -1.
CallsReturningInt ==
    UNION {TableDestroyOutcomes, TableClearOutcomes,
           CapacityOutcomes, CountOutcomes,
           UNION {TableInsertOutcomes(k, v) : k \in KeyArgs, v \in DataArgs},
           UNION {TableRemoveOutcomes(k) : k \in KeyArgs},
           UNION {TableReserveOutcomes(cap) : cap \in CapArgs}}

\* The outcomes of the calls that report failure by returning NULL.
CallsReturningPointer ==
    UNION {UNION {TableLookupOutcomes(k) : k \in KeyArgs},
           UNION {TableCreateOutcomes(cap) : cap \in CapArgs}}

\* The call returned its failure sentinel, with defined behaviour.
FailedOutcomes ==
    {o \in CallsReturningInt : ~o.crash /\ ~o.ub /\ o.ret = -1}
    \cup {o \in CallsReturningPointer : ~o.crash /\ ~o.ub /\ o.ret = NULL}

\* Outcome o leaves the handle and the table as they are.
TableUntouched(o) ==
    /\ o.ht = ht
    /\ o.cap = capacity
    /\ o.cnt = count
    /\ o.tbl = hash_table
    /\ o.mk = marker

\* C21: with either file, every call that returns its failure sentinel (-1,
\* or NULL for lookup and create) leaves the handle, capacity, count, the
\* slots with their keys and data, and the tombstone markers as they were.
C21_FailureLeavesTable ==
    (process = "running") => \A o \in FailedOutcomes : TableUntouched(o)

\* C21 witness: an open-addressing table that holds an entry and a
\* tombstone, on which a lookup or remove has failed with ERROR_NOT_FOUND.
C21_Witness ==
    /\ process = "running"
    /\ backend = "open_addressing"
    /\ ht = TABLE
    /\ count >= 1
    /\ LiveSlots # {}
    /\ \E s \in Slots : marker[s] # 0
    /\ error_code = ERROR_NOT_FOUND

\* Outcome o is a defined return of the failure sentinel rv.
Failed(o, rv) == ~o.crash /\ ~o.ub /\ o.ret = rv

\* Every failing call has left in error_code the kind that matches the
\* cause of the failure; emptyKind is the kind expected of a remove that
\* fails on a table whose count is 0.
FailureKinds(emptyKind) ==
    /\ \A k \in KeyArgs : \A v \in DataArgs : \A o \in TableInsertOutcomes(k, v) :
          Failed(o, -1) =>
              o.err = IF ht = NULL \/ k = NULL \/ v = NULL
                      THEN ERROR_NULL_PARAMETER
                      ELSE ERROR_OVERFLOW
    /\ \A k \in KeyArgs : \A o \in TableLookupOutcomes(k) :
          Failed(o, NULL) =>
              o.err = IF ht = NULL \/ k = NULL
                      THEN ERROR_NULL_PARAMETER
                      ELSE ERROR_NOT_FOUND
    /\ \A k \in KeyArgs : \A o \in TableRemoveOutcomes(k) :
          Failed(o, -1) =>
              o.err = IF ht = NULL \/ k = NULL THEN ERROR_NULL_PARAMETER
                      ELSE IF count <= 0 THEN emptyKind
                      ELSE ERROR_NOT_FOUND
    /\ \A cap \in CapArgs : \A o \in TableReserveOutcomes(cap) :
          Failed(o, -1) =>
              o.err = IF ht = NULL THEN ERROR_NULL_PARAMETER
                      ELSE IF cap < count THEN ERROR_INVALID_CAPACITY
                      ELSE ERROR_MEMORY_ALLOCATION_FAILED
    /\ \A cap \in CapArgs : \A o \in TableCreateOutcomes(cap) :
          Failed(o, NULL) => (cap < 1 /\ o.err = ERROR_INVALID_CAPACITY)
    /\ \A o \in UNION {TableClearOutcomes, TableDestroyOutcomes,
                       CapacityOutcomes, CountOutcomes} :
          Failed(o, -1) => (ht = NULL /\ o.err = ERROR_NULL_PARAMETER)

\* C22: with either file, every call that returns its failure sentinel has
\* set error_code to the kind that matches the cause: ERROR_NULL_PARAMETER
\* for a NULL handle, key or data, ERROR_INVALID_CAPACITY for a capacity
\* that is refused, ERROR_OVERFLOW for an insert into a full table and
\* ERROR_NOT_FOUND for a lookup or remove of a key that is not stored, the
\* empty table included.
C22_FailureSetsErrorCode ==
    (process = "running") => FailureKinds(ERROR_NOT_FOUND)

\* What the code does: the same, but a remove on a table whose count is 0
\* leaves ERROR_UNDERFLOW.
FailureKindsAsCoded ==
    (process = "running") => FailureKinds(ERROR_UNDERFLOW)

\* ------------------------------------------- one run on a table of each file
\* A caller makes every call twice: first on an open-addressing table, then
\* on a chaining table created with the same capacity, and keeps what each
\* call let it see.  The table being called is in the table variables, the
\* other one is parked in twin.

\* The calls of such a run: insert, lookup, remove, clear and reserve, with
\* the arguments a caller of a working table passes (no NULL, capacities of
\* 1 and more).
TwinCalls ==
    [name : {"insert"}, key : Keys, data : Data, cap : {0}]
    \cup [name : {"lookup", "remove"}, key : Keys, data : {NULL}, cap : {0}]
    \cup [name : {"clear"}, key : {NULL}, data : {NULL}, cap : {0}]
    \cup [name : {"reserve"}, key : {NULL}, data : {NULL}, cap : 1 .. MaxCap]

\* The outcomes of call c on the table in the table variables.
CallOutcomes(c) ==
    CASE c.name = "insert" -> TableInsertOutcomes(c.key, c.data)
      [] c.name = "lookup" -> TableLookupOutcomes(c.key)
      [] c.name = "remove" -> TableRemoveOutcomes(c.key)
      [] c.name = "clear" -> TableClearOutcomes
      [] c.name = "reserve" -> TableReserveOutcomes(c.cap)

\* What the caller sees of a call: the value returned, then
\* hash_table_count( ht ) and hash_table_capacity( ht ).
Seen(o) == [ret |-> o.ret, count |-> o.cnt, capacity |-> o.cap]

\* The table as outcome o leaves it, put aside.
Parked(o) ==
    [backend |-> backend, ht |-> o.ht, tbl |-> o.tbl, mk |-> o.mk,
     cap |-> o.cap, cnt |-> o.cnt]

\* The parked table t is the one called next.
Resume(t) ==
    /\ backend' = t.backend
    /\ ht' = t.ht
    /\ hash_table' = t.tbl
    /\ marker' = t.mk
    /\ capacity' = t.cap
    /\ count' = t.cnt

\* The call with outcome o has been made: the other table is up next.
Switch(o, next) ==
    /\ process' = IF o.crash THEN "killed"
                  ELSE IF o.ub THEN "undefined"
                  ELSE process
    /\ error_code' = o.err
    /\ Resume(twin.table)
    /\ twin' = [next EXCEPT !.table = Parked(o)]
    /\ UNCHANGED <<watch, latest, kattr, dattr,
                   queue, dequeue, stack, ret, order>>

\* hash_table_create( &kattr, &dattr, c ) twice, once with each file, both
\* attribute sets holding the int_* callbacks of the tests.
InitTwin ==
    \E c \in 1 .. MaxCap :
        /\ backend = "open_addressing"
        /\ ht = TABLE
        /\ hash_table = EmptyTable(c)
        /\ marker = EmptyMarker(c)
        /\ capacity = c
        /\ count = 0
        /\ error_code = ERROR_NO_ERROR
        /\ process = "running"
        /\ watch = NULL
        /\ latest = NULL
        /\ kattr = IntAttr
        /\ dattr = IntAttr
        /\ NoContainers
        /\ twin = [table |-> [backend |-> "chaining", ht |-> TABLE,
                              tbl |-> EmptyBuckets(c), mk |-> EmptyMarker(0),
                              cap |-> c, cnt |-> 0],
                   turn |-> "first",
                   call |-> [name |-> "create", key |-> NULL, data |-> NULL,
                             cap |-> c],
                   first |-> [ret |-> TABLE, count |-> 0, capacity |-> c],
                   second |-> [ret |-> TABLE, count |-> 0, capacity |-> c]]

\* Call c on the open-addressing table; no insert is attempted while
\* count == capacity, and the run ends once a call has not given the same
\* on both tables.
TwinFirst(c) ==
    /\ process = "running"
    /\ twin.turn = "first"
    /\ twin.first = twin.second
    /\ c.name = "insert" => count # capacity
    /\ \E o \in CallOutcomes(c) :
          Switch(o, [twin EXCEPT !.turn = "second", !.call = c,
                                 !.first = Seen(o)])

\* The same call on the chaining table.
TwinSecond ==
    /\ process = "running"
    /\ twin.turn = "second"
    /\ \E o \in CallOutcomes(twin.call) :
          Switch(o, [twin EXCEPT !.turn = "first", !.second = Seen(o)])

NextTwin ==
    \/ \E c \in TwinCalls : TwinFirst(c)
    \/ TwinSecond

SpecTwin == InitTwin /\ [][NextTwin]_vars

\* C23: in a run that makes the same calls (insert, lookup, remove, clear,
\* reserve; no insert while count == capacity) on an open-addressing and on
\* a chaining table, every call returns the same value on both and leaves
\* the same count and capacity.
C23_BackendsAgree ==
    (process = "running" /\ twin.turn = "first") => twin.first = twin.second

\* --------------------------------------------- attribute sets (attributes.c)
\* The attr_t * a caller passes: NULL, or the address of one of its objects.
AttrArgs == {"NULL", "kattr", "dattr"}
\* The function a caller passes: NULL, or one of its own.
FnArgs == {NULL, USER_FN}

\* A setter that tests the attribute set only.
AttrSetRejectsNullSet(a, fn) == a = "NULL"

\* if( attr == NULL ) ... if( data_compare == NULL ) ...
AttrSetRejects(a, fn) == a = "NULL" \/ fn = NULL

\* A setter that also resets print to its default.
AttrSetResetsPrint(field, a, fn) ==
    LET set(x) == [x EXCEPT ![field] = fn, !["print"] = DEFAULT_FN]
    IN  IF AttrSetRejects(a, fn)
        THEN [kattr |-> kattr, dattr |-> dattr,
              err |-> ERROR_NULL_PARAMETER, ret |-> -1]
        ELSE [kattr |-> IF a = "kattr" THEN set(kattr) ELSE kattr,
              dattr |-> IF a = "dattr" THEN set(dattr) ELSE dattr,
              err |-> error_code, ret |-> 0]

\* attr_set_<field>( a, fn ): the two objects and error_code as the call
\* leaves them, and the value returned.
AttrSet(field, a, fn) ==
    IF AttrSetRejects(a, fn)
    THEN [kattr |-> kattr, dattr |-> dattr,
          err |-> ERROR_NULL_PARAMETER, ret |-> -1]
    ELSE [kattr |-> IF a = "kattr" THEN [kattr EXCEPT ![field] = fn] ELSE kattr,
          dattr |-> IF a = "dattr" THEN [dattr EXCEPT ![field] = fn] ELSE dattr,
          err |-> error_code, ret |-> 0]

\* attr_init( a )
AttrInit(a) ==
    IF a = "NULL"
    THEN [kattr |-> kattr, dattr |-> dattr,
          err |-> ERROR_NULL_PARAMETER, ret |-> -1]
    ELSE [kattr |-> IF a = "kattr" THEN DefaultAttr ELSE kattr,
          dattr |-> IF a = "dattr" THEN DefaultAttr ELSE dattr,
          err |-> error_code, ret |-> 0]

\* The call on the attribute sets ends as r; no table is touched.
ApplyAttr(r) ==
    /\ process = "running"
    /\ kattr' = r.kattr
    /\ dattr' = r.dattr
    /\ error_code' = r.err
    /\ UNCHANGED <<backend, ht, hash_table, marker, capacity, count, process,
                   watch, latest, twin, queue, dequeue, stack, ret, order>>

attr_init(a) == ApplyAttr(AttrInit(a))
attr_set_compare(a, fn) == ApplyAttr(AttrSet("compare", a, fn))
attr_set_print(a, fn) == ApplyAttr(AttrSet("print", a, fn))
attr_set_copy(a, fn) == ApplyAttr(AttrSet("copy", a, fn))
attr_set_free(a, fn) == ApplyAttr(AttrSet("free", a, fn))
attr_set_hash(a, fn) == ApplyAttr(AttrSet("hash", a, fn))

\* The attribute set hash_table_create installs for argument a: the
\* defaults of attr_init for NULL, a copy of the caller's object otherwise.
Installed(a) ==
    IF a = "NULL" THEN DefaultAttr
    ELSE IF a = "kattr" THEN kattr
    ELSE dattr

\* The asserts at the end of hash_table_create (the same in both files).
CreateAsserts(k, d) ==
    /\ k["copy"] # NULL
    /\ k["free"] # NULL
    /\ k["compare"] # NULL
    /\ k["print"] # NULL
    /\ k["hash"] # NULL
    /\ d["copy"] # NULL
    /\ d["free"] # NULL
    /\ d["print"] # NULL

\* hash_table_create( ka, da, cap ) with attribute sets.
CreateAttrOutcomes(ka, da, cap) ==
    IF cap < 1 \/ CreateAsserts(Installed(ka), Installed(da))
    THEN TableCreateOutcomes(cap)
    ELSE {Died}

hash_table_create_attr(ka, da, cap) ==
    /\ process = "running"
    /\ ht = NULL
    /\ \E o \in CreateAttrOutcomes(ka, da, cap) :
          Apply(o) /\ UNCHANGED <<watch, latest>>

\* No table yet; each of the caller's two attr_t objects is zero-filled or
\* has been through attr_init.
InitAttr ==
    /\ backend \in {"open_addressing", "chaining"}
    /\ ht = NULL
    /\ hash_table = EmptyTable(0)
    /\ marker = EmptyMarker(0)
    /\ capacity = 0
    /\ count = 0
    /\ error_code = ERROR_NO_ERROR
    /\ process = "running"
    /\ watch = NULL
    /\ latest = NULL
    /\ twin = NULL
    /\ kattr \in {ZeroAttr, DefaultAttr}
    /\ dattr \in {ZeroAttr, DefaultAttr}
    /\ NoContainers

NextAttr ==
    \/ \E a \in AttrArgs : attr_init(a)
    \/ \E a \in AttrArgs, fn \in FnArgs : attr_set_compare(a, fn)
    \/ \E a \in AttrArgs, fn \in FnArgs : attr_set_print(a, fn)
    \/ \E a \in AttrArgs, fn \in FnArgs : attr_set_copy(a, fn)
    \/ \E a \in AttrArgs, fn \in FnArgs : attr_set_free(a, fn)
    \/ \E a \in AttrArgs, fn \in FnArgs : attr_set_hash(a, fn)
    \/ \E ka \in {"NULL", "kattr"}, da \in {"NULL", "dattr"}, cap \in CapArgs :
           hash_table_create_attr(ka, da, cap)

SpecAttr == InitAttr /\ [][NextAttr]_vars

\* C24: hash_table_create, with either file, returns a table only when
\* compare, copy and free are installed for the key and for the data
\* attribute set and hash is installed for the key set.
C24_CreateChecksAttributes ==
    (process = "running" /\ ht = NULL) =>
        \A ka \in {"NULL", "kattr"} : \A da \in {"NULL", "dattr"} :
            \A cap \in CapArgs : \A o \in CreateAttrOutcomes(ka, da, cap) :
                (~o.crash /\ o.ht = TABLE) =>
                    /\ \A f \in {"compare", "copy", "free", "hash"} :
                          Installed(ka)[f] # NULL
                    /\ \A f \in {"compare", "copy", "free"} :
                          Installed(da)[f] # NULL

\* ------------------------------------------------- default attribute sets
\* hash_table_create( NULL, NULL, c ) has returned: both attribute sets of
\* the table went through attr_init.
InitDefault ==
    \E c \in 1 .. MaxCap :
        /\ backend \in {"open_addressing", "chaining"}
        /\ ht = TABLE
        /\ hash_table = IF backend = "chaining"
                        THEN EmptyBuckets(c) ELSE EmptyTable(c)
        /\ marker = IF backend = "chaining"
                    THEN EmptyMarker(0) ELSE EmptyMarker(c)
        /\ capacity = c
        /\ count = 0
        /\ error_code = ERROR_NO_ERROR
        /\ process = "running"
        /\ watch = NULL
        /\ latest = NULL
        /\ twin = NULL
        /\ kattr = DefaultAttr
        /\ dattr = DefaultAttr
        /\ NoContainers

\* The key addresses passed to such a table: two of the array and the
\* second int that equals numbers[ 0 ].
DefaultKeys == {1, 3, 5}

\* What test_lookup does with such a table: inserts and lookups of the
\* addresses of the caller's ints, and the observers.
NextDefault ==
    \/ \E key \in DefaultKeys \cup {NULL}, data \in DataArgs :
           backend = "open_addressing" /\ hash_table_insert(key, data)
    \/ \E key \in DefaultKeys \cup {NULL}, data \in DataArgs :
           backend = "chaining" /\ chaining_hash_table_insert(key, data)
    \/ \E key \in DefaultKeys \cup {NULL} :
           backend = "open_addressing" /\ hash_table_lookup(key)
    \/ \E key \in DefaultKeys \cup {NULL} :
           backend = "chaining" /\ chaining_hash_table_lookup(key)
    \/ hash_table_capacity
    \/ hash_table_count

SpecDefault == InitDefault /\ [][NextDefault]_vars

\* C25: in a table created without attribute sets, an insert( k, v ) that
\* returns 0 makes lookup( k ) return the pointer v itself and changes the
\* answer of lookup for no other address, one that holds an equal integer
\* included: keys are equal only when they are the same address.
C25_DefaultIdentity ==
    [][\A k \in DefaultKeys : \A v \in Data :
       \A o \in TableInsertOutcomes(k, v) :
          (DefinedStep(o) /\ o.ret = 0) =>
              /\ TableLookupReturns(k, v)'
              /\ \A a \in DefaultKeys \ {k} : \A w \in DataArgs :
                    TableLookupReturns(a, w) => TableLookupReturns(a, w)']_vars

\* Two addresses that hold equal integers are stored with different data.
C25_Witness ==
    /\ process = "running"
    /\ kattr = DefaultAttr
    /\ Numbers(1) = Numbers(5)
    /\ TableLookupReturns(1, 10)
    /\ TableLookupReturns(5, 20)
    /\ count = 2

\* The caller's object that argument a names.
AttrObject(a) == IF a = "kattr" THEN kattr ELSE dattr

\* C26: each of the five setters, called with an attribute set and a
\* function that are not NULL, returns 0, leaves error_code alone, stores
\* the function in its own field and leaves the other four fields of that
\* set, and the whole of the other set, as they were.
C26_SetterSetsOwnField ==
    (process = "running") =>
        \A field \in AttrFields : \A a \in AttrArgs \ {"NULL"} :
            \A fn \in FnArgs \ {NULL} :
                LET r == AttrSet(field, a, fn)
                    set == IF a = "kattr" THEN r.kattr ELSE r.dattr
                    other == IF a = "kattr" THEN r.dattr ELSE r.kattr
                IN  /\ r.ret = 0
                    /\ r.err = error_code
                    /\ set[field] = fn
                    /\ \A g \in AttrFields \ {field} : set[g] = AttrObject(a)[g]
                    /\ other = (IF a = "kattr" THEN dattr ELSE kattr)

\* attr_init( &kattr ), attr_init( &dattr ) and attr_set_hash( &kattr, fn )
\* have run: one field of one set holds the caller's function.
C26_Witness ==
    /\ process = "running"
    /\ ht = NULL
    /\ error_code = ERROR_NO_ERROR
    /\ kattr = [DefaultAttr EXCEPT !["hash"] = USER_FN]
    /\ dattr = DefaultAttr

\* C27: each of the five setters, called with a NULL attribute set or a
\* NULL function, returns -1 with error_code = ERROR_NULL_PARAMETER and
\* leaves every field of both attribute sets as it was.
C27_SetterRejectsNull ==
    (process = "running") =>
        \A field \in AttrFields : \A a \in AttrArgs : \A fn \in FnArgs :
            (a = "NULL" \/ fn = NULL) =>
                LET r == AttrSet(field, a, fn)
                IN  /\ r.ret = -1
                    /\ r.err = ERROR_NULL_PARAMETER
                    /\ r.kattr = kattr
                    /\ r.dattr = dattr

\* A setter was applied to a set that holds a caller's function and was
\* rejected: error_code says so and the function is still there.
C27_Witness ==
    /\ process = "running"
    /\ ht = NULL
    /\ error_code = ERROR_NULL_PARAMETER
    /\ kattr = [ZeroAttr EXCEPT !["compare"] = USER_FN]
    /\ dattr = ZeroAttr

\* ================================================================ containers
\* Queue, dequeue and stack are created without an attribute set
\* ( create( NULL, c ) ), so attr_init gives them the default functions: an
\* item is the caller's pointer (default_copy), named by the address it
\* holds; items compare equal only when they are the same address
\* (default_compare), and default_free does nothing.  A run has one
\* container and no table.
tableVars == <<backend, ht, hash_table, marker, capacity, count, process,
               watch, latest, twin, kattr, dattr>>

NoTable ==
    /\ backend = "open_addressing"
    /\ ht = NULL
    /\ hash_table = EmptyTable(0)
    /\ marker = EmptyMarker(0)
    /\ capacity = 0
    /\ count = 0
    /\ error_code = ERROR_NO_ERROR
    /\ process = "running"
    /\ watch = NULL
    /\ latest = NULL
    /\ twin = NULL
    /\ kattr = DefaultAttr
    /\ dattr = DefaultAttr

\* A call returns -1 with error_code set and has written nothing else.
ContainerFails(code) ==
    /\ ret' = -1
    /\ error_code' = code
    /\ UNCHANGED <<queue, dequeue, stack, order>>

\* The table variables but process, for the calls that can end the run.
tableRest == <<backend, ht, hash_table, marker, capacity, count,
               watch, latest, twin, kattr, dattr>>

\* The call dereferences a NULL pointer (a fault) or reads or writes
\* memory it does not own: a freed node, or an index outside the array
\* (anything may follow; no call is modelled from then on).
ContainerDies(how) ==
    /\ process' = how
    /\ UNCHANGED <<queue, dequeue, stack, order, ret, error_code>>

\* What a dereference of pointer p does to the process when p is not the
\* address of an allocated node.
Deref(p) == IF p = NULL THEN "killed" ELSE "undefined"

\* The handle a caller passes: NULL, or the address of its container.
HandleArgs == {"NULL", "container"}

\* The caller's container once destroy has freed the struct and set the
\* caller's pointer to NULL.
Destroyed == [destroyed |-> TRUE]

\* The caller's pointer to container c is NULL.
Gone(c) == "destroyed" \in DOMAIN c

\* The test every call starts with: the handle is NULL, or the pointer it
\* points to is NULL.
NoHandle(q, c) == q = "NULL" \/ Gone(c)

\* The sequence s without its first occurrence of d. When d is not in s the
\* call has removed something the history does not hold (a slot the
\* earlier calls left in the wrong place): the last entry is dropped, so
\* that the history stays as long as count.
RemoveFirst(s, d) ==
    IF \E i \in 1 .. Len(s) : s[i] = d
    THEN LET i == CHOOSE i \in 1 .. Len(s) :
                      /\ s[i] = d
                      /\ \A h \in 1 .. (i - 1) : s[h] # d
         IN  SubSeq(s, 1, i - 1) \o SubSeq(s, i + 1, Len(s))
    ELSE SubSeq(s, 1, Len(s) - 1)

\* The array arr of n items without the item at index i0: the items after
\* it are shifted down one slot and the slot of the last one is cleared.
ArrayWithout(arr, n, i0) ==
    [k \in DOMAIN arr |->
        IF k >= i0 /\ k < n - 1 THEN arr[k + 1]
        ELSE IF k = n - 1 THEN NULL
        ELSE arr[k]]

\* calloc( capacity, sizeof( void * ) )
EmptyArray(c) == [i \in 0 .. (c - 1) |-> NULL]

\* ------------------------------------------------- queue (circular array)
\* queue_create( &attr, c ) has returned the queue.
InitQueue ==
    /\ NoTable
    /\ \E c \in 1 .. MaxCap :
          queue = [queue |-> EmptyArray(c), head |-> 0, tail |-> 0,
                   capacity |-> c, count |-> 0]
    /\ dequeue = NULL
    /\ stack = NULL
    /\ ret = 0
    /\ order = << >>

\* A peek that reads the slot at tail.
queue_peek_tail == IF queue.count # 0 THEN queue.queue[queue.tail] ELSE NULL

\* queue_peek( queue ), the queue given.
queue_peek == IF queue.count # 0 THEN queue.queue[queue.head] ELSE NULL

queue_insert(q, data) ==
    /\ process = "running"
    /\ IF NoHandle(q, queue) \/ data = NULL
       THEN ContainerFails(ERROR_NULL_PARAMETER)
       ELSE IF queue.count >= queue.capacity
       THEN ContainerFails(ERROR_OVERFLOW)
       ELSE LET at == IF queue.count = 0
                      THEN queue.head
                      ELSE (queue.tail + 1) % queue.capacity
            IN  /\ queue' = [queue EXCEPT !.queue[at] = data,
                                          !.tail = at,
                                          !.count = @ + 1]
                /\ order' = Append(order, data)
                /\ ret' = 0
                /\ UNCHANGED <<error_code, dequeue, stack>>
    /\ UNCHANGED tableVars

\* A remove that refuses only below zero.
queue_remove_below(q) ==
    /\ process = "running"
    /\ IF NoHandle(q, queue)
       THEN ContainerFails(ERROR_NULL_PARAMETER)
       ELSE IF queue.count < 0
       THEN ContainerFails(ERROR_UNDERFLOW)
       ELSE /\ queue' = [queue EXCEPT
                            !.queue[queue.head] = NULL,
                            !.head = (queue.head + 1) % queue.capacity,
                            !.count = @ - 1]
            /\ order' = SubSeq(order, 2, Len(order))
            /\ ret' = 0
            /\ UNCHANGED <<error_code, dequeue, stack>>
    /\ UNCHANGED tableVars

queue_remove(q) ==
    /\ process = "running"
    /\ IF NoHandle(q, queue)
       THEN ContainerFails(ERROR_NULL_PARAMETER)
       ELSE IF queue.count <= 0
       THEN ContainerFails(ERROR_UNDERFLOW)
       ELSE /\ queue' = [queue EXCEPT
                            !.queue[queue.head] = NULL,
                            !.head = (queue.head + 1) % queue.capacity,
                            !.count = @ - 1]
            /\ order' = Tail(order)
            /\ ret' = 0
            /\ UNCHANGED <<error_code, dequeue, stack>>
    /\ UNCHANGED tableVars

NextQueue ==
    \/ \E q \in HandleArgs, data \in DataArgs : queue_insert(q, data)
    \/ \E q \in HandleArgs : queue_remove(q)

SpecQueue == InitQueue /\ [][NextQueue]_vars

\* C28: under every interleaving of queue_insert and queue_remove the queue
\* holds as many items as were inserted and not yet removed, in that order
\* from head on (indices wrapping at capacity), and queue_peek returns the
\* oldest of them, NULL when there is none; a queue_remove that returns 0
\* removes that oldest item.
C28_QueueFifo ==
    (process = "running") =>
        /\ queue.count = Len(order)
        /\ \A i \in 1 .. Len(order) :
              queue.queue[(queue.head + i - 1) % queue.capacity] = order[i]
        /\ queue_peek = IF order = << >> THEN NULL ELSE Head(order)

\* Inserts and removes have moved head past the end of the array and the
\* queue holds two different items, the younger one at a lower index.
C28_Witness ==
    /\ process = "running"
    /\ queue.capacity = 3
    /\ queue.head = 2
    /\ queue.tail = 0
    /\ queue.count = 2
    /\ order = <<10, 20>>

\* ----------------------------------------------- dequeue (circular array)
\* dequeue_create( &attr, c ) has returned the dequeue.
InitDequeue ==
    /\ NoTable
    /\ \E c \in 1 .. MaxCap :
          dequeue = [dequeue |-> EmptyArray(c), head |-> 0, tail |-> 0,
                     capacity |-> c, count |-> 0]
    /\ queue = NULL
    /\ stack = NULL
    /\ ret = 0
    /\ order = << >>

\* dequeue_peek_front( dequeue ), the dequeue given.
dequeue_peek_front ==
    IF dequeue.count # 0 THEN dequeue.dequeue[dequeue.head] ELSE NULL

\* A peek at the back that reads the slot after tail.
dequeue_peek_back_after_tail ==
    IF dequeue.count # 0
    THEN dequeue.dequeue[(dequeue.tail + 1) % dequeue.capacity]
    ELSE NULL

\* dequeue_peek_back( dequeue ), the dequeue given.
dequeue_peek_back ==
    IF dequeue.count # 0
    THEN IF dequeue.tail \in DOMAIN dequeue.dequeue
         THEN dequeue.dequeue[dequeue.tail]
         ELSE GARBAGE
    ELSE NULL

dequeue_insert_front(q, data) ==
    /\ process = "running"
    /\ IF NoHandle(q, dequeue) \/ data = NULL
       THEN ContainerFails(ERROR_NULL_PARAMETER)
       ELSE IF dequeue.count >= dequeue.capacity
       THEN ContainerFails(ERROR_OVERFLOW)
       ELSE /\ IF dequeue.count = 0
               THEN dequeue' = [dequeue EXCEPT
                                   !.dequeue[dequeue.head] = data,
                                   !.tail = dequeue.head,
                                   !.count = @ + 1]
               ELSE LET at == IF dequeue.head = 0
                              THEN dequeue.capacity - 1
                              ELSE (dequeue.head - 1) % dequeue.capacity
                    IN  dequeue' = [dequeue EXCEPT !.dequeue[at] = data,
                                                   !.head = at,
                                                   !.count = @ + 1]
            /\ order' = <<data>> \o order
            /\ ret' = 0
            /\ UNCHANGED <<error_code, queue, stack>>
    /\ UNCHANGED tableVars

dequeue_insert_back(q, data) ==
    /\ process = "running"
    /\ IF NoHandle(q, dequeue) \/ data = NULL
       THEN ContainerFails(ERROR_NULL_PARAMETER)
       ELSE IF dequeue.count >= dequeue.capacity
       THEN ContainerFails(ERROR_OVERFLOW)
       ELSE LET at == IF dequeue.count = 0
                      THEN dequeue.head
                      ELSE (dequeue.tail + 1) % dequeue.capacity
            IN  /\ dequeue' = [dequeue EXCEPT !.dequeue[at] = data,
                                              !.tail = at,
                                              !.count = @ + 1]
                /\ order' = Append(order, data)
                /\ ret' = 0
                /\ UNCHANGED <<error_code, queue, stack>>
    /\ UNCHANGED tableVars

dequeue_remove_front(q) ==
    /\ process = "running"
    /\ IF NoHandle(q, dequeue)
       THEN ContainerFails(ERROR_NULL_PARAMETER)
       ELSE IF dequeue.count <= 0
       THEN ContainerFails(ERROR_UNDERFLOW)
       ELSE /\ dequeue' = [dequeue EXCEPT
                              !.dequeue[dequeue.head] = NULL,
                              !.head = (dequeue.head + 1) % dequeue.capacity,
                              !.count = @ - 1]
            /\ order' = Tail(order)
            /\ ret' = 0
            /\ UNCHANGED <<error_code, queue, stack>>
    /\ UNCHANGED tableVars

dequeue_remove_back(q) ==
    /\ process = "running"
    /\ IF NoHandle(q, dequeue)
       THEN ContainerFails(ERROR_NULL_PARAMETER) /\ UNCHANGED process
       ELSE IF dequeue.count <= 0
       THEN ContainerFails(ERROR_UNDERFLOW) /\ UNCHANGED process
       ELSE IF dequeue.tail \notin DOMAIN dequeue.dequeue
       THEN ContainerDies("undefined")
       ELSE /\ dequeue' = [dequeue EXCEPT
                              !.dequeue[dequeue.tail] = NULL,
                              !.count = @ - 1,
                              !.tail = IF dequeue.tail = 0
                                       THEN dequeue.capacity - 1
                                       ELSE (dequeue.tail - 1)
                                                % dequeue.capacity]
            /\ order' = SubSeq(order, 1, Len(order) - 1)
            /\ ret' = 0
            /\ UNCHANGED <<error_code, queue, stack, process>>
    /\ UNCHANGED tableRest

NextDequeue ==
    \/ \E q \in HandleArgs, data \in DataArgs : dequeue_insert_front(q, data)
    \/ \E q \in HandleArgs, data \in DataArgs : dequeue_insert_back(q, data)
    \/ \E q \in HandleArgs : dequeue_remove_front(q)
    \/ \E q \in HandleArgs : dequeue_remove_back(q)

SpecDequeue == InitDequeue /\ [][NextDequeue]_vars

\* C29: under every interleaving of dequeue_insert_front,
\* dequeue_insert_back, dequeue_remove_front and dequeue_remove_back the
\* dequeue holds the double-ended sequence those calls build (count items,
\* from head on, indices wrapping at capacity); dequeue_peek_front returns
\* its first and dequeue_peek_back its last element, and both return NULL
\* when it is empty.
C29_DequeuePeeks ==
    (process = "running") =>
        /\ dequeue.count = Len(order)
        /\ \A i \in 1 .. Len(order) :
              dequeue.dequeue[(dequeue.head + i - 1) % dequeue.capacity]
                  = order[i]
        /\ dequeue_peek_front = IF order = << >> THEN NULL ELSE Head(order)
        /\ dequeue_peek_back
               = IF order = << >> THEN NULL ELSE order[Len(order)]

\* An insert at the front of a dequeue whose head was at index 0 has moved
\* head to the last index; front and back hold different items.
C29_Witness ==
    /\ process = "running"
    /\ dequeue.capacity = 3
    /\ dequeue.head = 2
    /\ dequeue.tail = 0
    /\ dequeue.count = 2
    /\ order = <<20, 10>>

\* ----------------------------------------------------------- stack (array)
\* stack_create( &attr, c ) has returned the stack.
InitStack ==
    /\ NoTable
    /\ \E c \in 1 .. MaxCap :
          stack = [stack |-> EmptyArray(c), capacity |-> c, count |-> 0]
    /\ queue = NULL
    /\ dequeue = NULL
    /\ ret = 0
    /\ order = << >>

\* A peek that reads the bottom of the stack.
stack_peek_bottom == IF stack.count # 0 THEN stack.stack[0] ELSE NULL

\* stack_peek( stack ), the stack given.
stack_peek == IF stack.count # 0 THEN stack.stack[stack.count - 1] ELSE NULL

stack_insert(q, data) ==
    /\ process = "running"
    /\ IF NoHandle(q, stack) \/ data = NULL
       THEN ContainerFails(ERROR_NULL_PARAMETER)
       ELSE IF stack.count >= stack.capacity
       THEN ContainerFails(ERROR_OVERFLOW)
       ELSE /\ stack' = [stack EXCEPT !.stack[stack.count] = data,
                                      !.count = @ + 1]
            /\ order' = Append(order, data)
            /\ ret' = 0
            /\ UNCHANGED <<error_code, queue, dequeue>>
    /\ UNCHANGED tableVars

stack_remove(q) ==
    /\ process = "running"
    /\ IF NoHandle(q, stack)
       THEN ContainerFails(ERROR_NULL_PARAMETER)
       ELSE IF stack.count <= 0
       THEN ContainerFails(ERROR_UNDERFLOW)
       ELSE /\ stack' = [stack EXCEPT !.stack[stack.count - 1] = NULL,
                                      !.count = @ - 1]
            /\ order' = SubSeq(order, 1, Len(order) - 1)
            /\ ret' = 0
            /\ UNCHANGED <<error_code, queue, dequeue>>
    /\ UNCHANGED tableVars

NextStack ==
    \/ \E q \in HandleArgs, data \in DataArgs : stack_insert(q, data)
    \/ \E q \in HandleArgs : stack_remove(q)

SpecStack == InitStack /\ [][NextStack]_vars

\* C30: under every interleaving of stack_insert and stack_remove the stack
\* holds the items inserted and not yet removed, oldest at index 0, and
\* stack_peek returns the most recently inserted of them, NULL when there
\* is none; a stack_remove that returns 0 removes that item.
C30_StackLifo ==
    (process = "running") =>
        /\ stack.count = Len(order)
        /\ \A i \in 1 .. Len(order) : stack.stack[i - 1] = order[i]
        /\ \A i \in Len(order) .. (stack.capacity - 1) :
              stack.stack[i] = NULL
        /\ stack_peek = IF order = << >> THEN NULL ELSE order[Len(order)]

\* The stack has been full, an insert has been refused, and a remove has
\* left the older of two different items.
C30_Witness ==
    /\ process = "running"
    /\ stack.capacity = 2
    /\ stack.count = 1
    /\ order = <<20>>
    /\ error_code = ERROR_OVERFLOW
    /\ ret = 0

\* ======================================== the three queue implementations
\* The file linked in, told by the fields of the struct.
QueueKind ==
    IF "chain" \in DOMAIN queue THEN "linked_list"
    ELSE IF "head" \in DOMAIN queue THEN "circular_array"
    ELSE "array"

\* ------------------------------------------------------------ queue (array)
\* queue_create( &attr, c ) of queue_array.c has returned the queue.
InitArrayQueue ==
    /\ NoTable
    /\ \E c \in 1 .. MaxCap :
          queue = [queue |-> EmptyArray(c), capacity |-> c, count |-> 0]
    /\ dequeue = NULL
    /\ stack = NULL
    /\ ret = 0
    /\ order = << >>

\* queue_peek( queue ) of queue_array.c, the queue given.
array_queue_peek == IF queue.count # 0 THEN queue.queue[0] ELSE NULL

\* An insert that refuses only above capacity.
array_queue_insert_above(q, data) ==
    /\ process = "running"
    /\ IF NoHandle(q, queue) \/ data = NULL
       THEN ContainerFails(ERROR_NULL_PARAMETER)
       ELSE IF queue.count > queue.capacity
       THEN ContainerFails(ERROR_OVERFLOW)
       ELSE /\ queue' = [queue EXCEPT
                            !.queue = [i \in 0 .. (queue.capacity - 1) |->
                                          IF i = queue.count % queue.capacity
                                          THEN data ELSE queue.queue[i]],
                            !.count = @ + 1]
            /\ order' = Append(order, data)
            /\ ret' = 0
            /\ UNCHANGED <<error_code, dequeue, stack>>
    /\ UNCHANGED tableVars

\* queue_insert of queue_array.c
array_queue_insert(q, data) ==
    /\ process = "running"
    /\ IF NoHandle(q, queue) \/ data = NULL
       THEN ContainerFails(ERROR_NULL_PARAMETER)
       ELSE IF queue.count >= queue.capacity
       THEN ContainerFails(ERROR_OVERFLOW)
       ELSE /\ queue' = [queue EXCEPT !.queue[queue.count] = data,
                                      !.count = @ + 1]
            /\ order' = Append(order, data)
            /\ ret' = 0
            /\ UNCHANGED <<error_code, dequeue, stack>>
    /\ UNCHANGED tableVars

\* queue_remove of queue_array.c: queue[ 0 ] is freed, the items above move
\* down one index and the index they leave is cleared.
array_queue_remove(q) ==
    /\ process = "running"
    /\ IF NoHandle(q, queue)
       THEN ContainerFails(ERROR_NULL_PARAMETER)
       ELSE IF queue.count <= 0
       THEN ContainerFails(ERROR_UNDERFLOW)
       ELSE LET n == queue.count - 1
            IN  /\ queue' = [queue EXCEPT
                                !.queue = [i \in 0 .. (queue.capacity - 1) |->
                                              IF i < n THEN queue.queue[i + 1]
                                              ELSE IF i = n THEN NULL
                                              ELSE queue.queue[i]],
                                !.count = n]
                /\ order' = Tail(order)
                /\ ret' = 0
                /\ UNCHANGED <<error_code, dequeue, stack>>
    /\ UNCHANGED tableVars

\* ------------------------------------------------------ queue (linked list)
\* The nodes are named by their place in the list: chain is the data of the
\* nodes reached from head through next pointers to allocated nodes; head
\* and tail are NULL, DANGLING (the address of a freed node) or the place
\* in chain of the node they point to; last_next is the next pointer of the
\* last node of chain, NULL or DANGLING.
EmptyList == [chain |-> << >>, head |-> NULL, tail |-> NULL,
              last_next |-> NULL, count |-> 0]

\* queue_create( &attr, c ) of queue_linked_list.c has returned the queue.
InitListQueue ==
    /\ NoTable
    /\ queue = EmptyList
    /\ dequeue = NULL
    /\ stack = NULL
    /\ ret = 0
    /\ order = << >>

\* queue_peek( queue ) of queue_linked_list.c, the queue given.
list_queue_peek ==
    IF queue.count # 0
    THEN IF queue.head >= 1 THEN queue.chain[queue.head] ELSE GARBAGE
    ELSE NULL

\* queue_insert of queue_linked_list.c. The list has no capacity: the model
\* makes no insert into a list of MaxCap nodes (the allocation of a node is
\* taken to succeed).
list_queue_insert(q, data) ==
    /\ process = "running"
    /\ IF NoHandle(q, queue) \/ data = NULL
       THEN ContainerFails(ERROR_NULL_PARAMETER) /\ UNCHANGED process
       ELSE IF queue.count = 0
       THEN /\ Len(queue.chain) < MaxCap
            /\ queue' = [chain |-> <<data>>, head |-> 1, tail |-> 1,
                         last_next |-> NULL, count |-> 1]
            /\ order' = Append(order, data)
            /\ ret' = 0
            /\ UNCHANGED <<error_code, dequeue, stack, process>>
       ELSE IF queue.tail < 1
       THEN ContainerDies(Deref(queue.tail))
       ELSE /\ Len(queue.chain) < MaxCap
            /\ queue' = [queue EXCEPT
                            !.chain = Append(SubSeq(queue.chain, 1, queue.tail),
                                             data),
                            !.tail = queue.tail + 1,
                            !.last_next = NULL,
                            !.count = @ + 1]
            /\ order' = Append(order, data)
            /\ ret' = 0
            /\ UNCHANGED <<error_code, dequeue, stack, process>>
    /\ UNCHANGED tableRest

\* The list once its first node is unlinked by head = head->next.
ListAfterHead ==
    LET rest == Tail(queue.chain)
    IN  [queue EXCEPT
            !.chain = rest,
            !.head = IF rest # << >> THEN 1 ELSE queue.last_next,
            !.tail = IF queue.tail >= 2 THEN queue.tail - 1
                     ELSE IF queue.tail = 1 THEN DANGLING
                     ELSE queue.tail,
            !.last_next = IF rest # << >> THEN queue.last_next ELSE NULL,
            !.count = @ - 1]

\* queue_remove of queue_linked_list.c
list_queue_remove(q) ==
    /\ process = "running"
    /\ IF NoHandle(q, queue)
       THEN ContainerFails(ERROR_NULL_PARAMETER) /\ UNCHANGED process
       ELSE IF queue.count <= 0
       THEN ContainerFails(ERROR_UNDERFLOW) /\ UNCHANGED process
       ELSE IF queue.head < 1
       THEN ContainerDies(Deref(queue.head))
       ELSE /\ queue' = IF queue.count = 1
                        THEN EmptyList
                        ELSE ListAfterHead
            /\ order' = Tail(order)
            /\ ret' = 0
            /\ UNCHANGED <<error_code, dequeue, stack, process>>
    /\ UNCHANGED tableRest

\* ------------------------------------------ insert and remove, every file
InitQueues == InitQueue \/ InitArrayQueue \/ InitListQueue

\* queue_insert( q, data ) of the file linked in.
QueueInsertStep(q, data) ==
    CASE QueueKind = "circular_array" -> queue_insert(q, data)
      [] QueueKind = "array" -> array_queue_insert(q, data)
      [] QueueKind = "linked_list" -> list_queue_insert(q, data)

\* queue_remove( q ) of the file linked in.
QueueRemoveStep(q) ==
    CASE QueueKind = "circular_array" -> queue_remove(q)
      [] QueueKind = "array" -> array_queue_remove(q)
      [] QueueKind = "linked_list" -> list_queue_remove(q)

\* queue_peek( queue ) of the file linked in.
QueuePeek ==
    CASE QueueKind = "circular_array" -> queue_peek
      [] QueueKind = "array" -> array_queue_peek
      [] QueueKind = "linked_list" -> list_queue_peek

NextQueues ==
    \/ \E q \in HandleArgs, data \in DataArgs :
           QueueKind = "circular_array" /\ queue_insert(q, data)
    \/ \E q \in HandleArgs : QueueKind = "circular_array" /\ queue_remove(q)
    \/ \E q \in HandleArgs, data \in DataArgs :
           QueueKind = "array" /\ array_queue_insert(q, data)
    \/ \E q \in HandleArgs : QueueKind = "array" /\ array_queue_remove(q)
    \/ \E q \in HandleArgs, data \in DataArgs :
           QueueKind = "linked_list" /\ list_queue_insert(q, data)
    \/ \E q \in HandleArgs : QueueKind = "linked_list" /\ list_queue_remove(q)

SpecQueues == InitQueues /\ [][NextQueues]_vars

\* C31: with the two files that bound the queue (array and circular
\* array), queue_insert on a queue whose count equals its capacity returns
\* -1 with error_code = ERROR_OVERFLOW and leaves the struct (count,
\* capacity, the stored items, head and tail) and so queue_peek unchanged.
C31_InsertFullOverflows ==
    [][\A data \in Data :
          (/\ process = "running"
           /\ QueueKind # "linked_list"
           /\ queue.count = queue.capacity
           /\ QueueInsertStep("container", data))
          => /\ ret' = -1
             /\ error_code' = ERROR_OVERFLOW
             /\ queue' = queue
             /\ QueuePeek' = QueuePeek]_vars

\* An insert into a full array queue has been refused.
C31_Witness ==
    /\ process = "running"
    /\ QueueKind = "array"
    /\ queue.capacity = 2
    /\ queue.count = 2
    /\ order = <<10, 20>>
    /\ ret = -1
    /\ error_code = ERROR_OVERFLOW

\* C32: with every file, queue_remove on an empty queue returns -1 with
\* error_code = ERROR_UNDERFLOW and leaves the struct unchanged, and an
\* empty queue, fresh or emptied by removals, takes an insert: the insert
\* returns 0, count is 1 and queue_peek returns the item.
C32_RemoveEmptyUnderflows ==
    [][/\ (/\ process = "running"
           /\ queue.count = 0
           /\ QueueRemoveStep("container"))
          => /\ ret' = -1
             /\ error_code' = ERROR_UNDERFLOW
             /\ queue' = queue
             /\ QueuePeek' = NULL
       /\ \A data \in Data :
             (/\ process = "running"
              /\ queue.count = 0
              /\ QueueInsertStep("container", data))
             => /\ ret' = 0
                /\ queue'.count = 1
                /\ QueuePeek' = data]_vars

\* A circular queue that was emptied by a removal (head has moved on) has
\* refused a remove.
C32_Witness ==
    /\ process = "running"
    /\ QueueKind = "circular_array"
    /\ queue.count = 0
    /\ queue.head = 1
    /\ ret = -1
    /\ error_code = ERROR_UNDERFLOW

\* ------------------------------------------------------------ stack_reserve
\* stack_reserve( q, cap ).  The test capacity <= count sets error_code and
\* does not return.  calloc of a negative capacity (a huge size_t) returns
\* NULL and the assert on it fails; calloc( 0 ) returns NULL or a block of
\* no bytes; the copy of count items into a shorter block writes past its
\* end.
stack_reserve(q, cap) ==
    /\ process = "running"
    /\ IF NoHandle(q, stack)
       THEN ContainerFails(ERROR_NULL_PARAMETER) /\ UNCHANGED process
       ELSE LET code == IF cap <= stack.count
                        THEN ERROR_INVALID_CAPACITY
                        ELSE error_code
                dies == /\ process' \in {IF cap < 0 THEN "killed"
                                         ELSE IF cap < stack.count
                                         THEN "undefined"
                                         ELSE "killed"}
                        /\ error_code' = code
                        /\ UNCHANGED <<queue, dequeue, stack, order, ret>>
                done == /\ stack' = [stack |-> [i \in 0 .. (cap - 1) |->
                                                   IF i < stack.count
                                                   THEN stack.stack[i]
                                                   ELSE NULL],
                                     capacity |-> cap,
                                     count |-> stack.count]
                        /\ ret' = 0
                        /\ error_code' = code
                        /\ UNCHANGED <<queue, dequeue, order, process>>
            IN  IF cap < 0 \/ cap < stack.count THEN dies
                ELSE IF cap = 0 THEN dies \/ done
                ELSE done
    /\ UNCHANGED tableRest

\* stack_remove_item( q, data ): the first item from the bottom that
\* compares equal to data is dropped and the items above it are shifted
\* down.
stack_remove_item(q, data) ==
    /\ process = "running"
    /\ IF NoHandle(q, stack) \/ data = NULL
       THEN ContainerFails(ERROR_NULL_PARAMETER)
       ELSE LET found == {i \in 0 .. (stack.count - 1) :
                             stack.stack[i] = data}
            IN  IF found = {}
                THEN ContainerFails(ERROR_NOT_FOUND)
                ELSE LET i0 == CHOOSE i \in found : \A h \in found : i <= h
                     IN  /\ stack' = [stack EXCEPT
                                         !.stack = ArrayWithout(stack.stack,
                                                       stack.count, i0),
                                         !.count = @ - 1]
                         /\ order' = RemoveFirst(order, data)
                         /\ ret' = 0
                         /\ UNCHANGED <<error_code, queue, dequeue>>
    /\ UNCHANGED tableVars

\* stack_clear( q ): every item from the bottom is freed and its slot
\* cleared.
stack_clear(q) ==
    /\ process = "running"
    /\ IF NoHandle(q, stack)
       THEN ContainerFails(ERROR_NULL_PARAMETER)
       ELSE /\ stack' = [stack EXCEPT
                            !.stack = [k \in DOMAIN stack.stack |->
                                          IF k < stack.count THEN NULL
                                          ELSE stack.stack[k]],
                            !.count = 0]
            /\ order' = << >>
            /\ ret' = 0
            /\ UNCHANGED <<error_code, queue, dequeue>>
    /\ UNCHANGED tableVars

\* stack_destroy( q ): stack_clear, then the array and the struct are freed
\* and the caller's pointer is set to NULL.
stack_destroy(q) ==
    /\ process = "running"
    /\ IF NoHandle(q, stack)
       THEN ContainerFails(ERROR_NULL_PARAMETER)
       ELSE /\ stack' = Destroyed
            /\ order' = << >>
            /\ ret' = 0
            /\ UNCHANGED <<error_code, queue, dequeue>>
    /\ UNCHANGED tableVars

NextStackReserve ==
    \/ \E q \in HandleArgs, data \in DataArgs : stack_insert(q, data)
    \/ \E q \in HandleArgs : stack_remove(q)
    \/ \E q \in HandleArgs, cap \in CapArgs : stack_reserve(q, cap)
    \/ \E q \in HandleArgs, data \in DataArgs : stack_remove_item(q, data)
    \/ \E q \in HandleArgs : stack_clear(q)
    \/ \E q \in HandleArgs : stack_destroy(q)

SpecStackReserve == InitStack /\ [][NextStackReserve]_vars

\* C33: a stack_reserve that is given a capacity of at least 1 and not
\* greater than count, and returns to its caller, returns -1 with
\* error_code = ERROR_INVALID_CAPACITY and leaves capacity and the items as
\* they were.
C33_StackReserveRejected ==
    [][\A cap \in 1 .. MaxCap :
          (/\ process = "running"
           /\ ~Gone(stack)
           /\ cap <= stack.count
           /\ stack_reserve("container", cap)
           /\ process' = "running")
          => /\ ret' = -1
             /\ error_code' = ERROR_INVALID_CAPACITY
             /\ stack' = stack]_vars

\* ------------------------------------------- open addressing: tombstones
\* The slots that hold key k and that outcome o of remove( k ) has emptied.
Emptied(k, o) ==
    {s \in LiveSlots : hash_table[s].key = k /\ o.tbl[s] = NullSlot}

\* C34: a hash_table_remove( k ) of the open-addressing table that returns
\* 0 empties one slot that held k; it sets the tombstone flag of that slot
\* when the slot is the home slot of k (probe offset 0) and changes no
\* other flag, and when the slot lies at a later probe offset it changes no
\* flag at all.
C34_TombstoneOnlyAtHome ==
    (process = "running" /\ ht = TABLE) =>
        \A k \in Keys : \A o \in RemoveOutcomes(k) :
            (~o.crash /\ ~o.ub /\ o.ret = 0) =>
                LET home == KeyHash(k) % capacity
                IN  /\ Cardinality(Emptied(k, o)) = 1
                    /\ \A t \in Slots :
                          o.mk[t] = IF t = home /\ home \in Emptied(k, o)
                                    THEN 1
                                    ELSE marker[t]

\* The watched key has been removed from a slot behind its home slot: the
\* table still holds a key, and no slot is flagged.
C34_Witness ==
    /\ process = "running"
    /\ ht = TABLE
    /\ capacity = 2
    /\ latest = REMOVED
    /\ count = 1
    /\ LiveSlots # {}
    /\ \A s \in Slots : marker[s] = 0
    /\ error_code = ERROR_NO_ERROR

\* The slots of outcome o that hold a pointer.
OccupiedAfter(o) == {s \in DOMAIN o.tbl : o.tbl[s].ptr # NULL}

\* C35: a hash_table_reserve of the open-addressing table that returns 0,
\* called on a table whose occupied slots hold distinct allocated nodes,
\* puts every entry of the old array into exactly one slot of the new one:
\* the new array has as many occupied slots as the old one, no node sits
\* in two slots, and every key of the old array is in the new one with its
\* data.
C35_ReservePlacesEachOnce ==
    (/\ process = "running"
     /\ ht = TABLE
     /\ DanglingSlots = {}
     /\ \A s, t \in LiveSlots : s # t => hash_table[s].ptr # hash_table[t].ptr)
    => \A cap \in 1 .. MaxCap : \A o \in ReserveOutcomes(cap) :
           (~o.crash /\ ~o.ub /\ o.ret = 0) =>
               /\ Cardinality(OccupiedAfter(o)) = Cardinality(LiveSlots)
               /\ \A s, t \in OccupiedAfter(o) :
                     s # t => o.tbl[s].ptr # o.tbl[t].ptr
               /\ \A s \in LiveSlots : \E t \in OccupiedAfter(o) :
                     /\ o.tbl[t].key = hash_table[s].key
                     /\ o.tbl[t].data = hash_table[s].data

\* C36: in every state of the open-addressing table reached by defined
\* calls, the home slot (hash( key ) % capacity) of every stored key holds
\* a pointer or is flagged as a tombstone, so the fast-path miss of lookup
\* and remove is never taken for a stored key.
C36_HomeSlotNeverBare ==
    (process = "running" /\ ht = TABLE) =>
        \A s \in LiveSlots :
            LET home == KeyHash(hash_table[s].key) % capacity
            IN  Occupied(home) \/ marker[home] # 0

\* --------------------------------------------------- chaining: the buckets
\* Insert, lookup, remove and reserve on a chaining table.
NextChainingRelink ==
    \/ \E key \in KeyArgs, data \in DataArgs :
           chaining_hash_table_insert(key, data)
    \/ \E key \in KeyArgs : chaining_hash_table_lookup(key)
    \/ \E key \in KeyArgs : chaining_hash_table_remove(key)
    \/ \E cap \in CapArgs : chaining_hash_table_reserve(cap)

SpecChainingRelink == InitChaining /\ [][NextChainingRelink]_vars

\* The nodes linked into the chains: bucket and place in its chain.
LinkedNodes ==
    UNION {{<<b, i>> : i \in 1 .. Len(hash_table[b])} : b \in DOMAIN hash_table}

\* C37: after any sequence of insert, remove and reserve on a chaining
\* table the bucket array has capacity buckets, count nodes are linked into
\* its chains, each of them an allocated node in one chain, and the index
\* of the bucket a node is in is hash( key ) % capacity for the capacity
\* the table has now.
C37_NodesInTheirBucket ==
    (process = "running" /\ ht = TABLE) =>
        /\ DOMAIN hash_table = Slots
        /\ Cardinality(LinkedNodes) = count
        /\ \A p \in LinkedNodes :
              LET n == hash_table[p[1]][p[2]]
              IN  /\ n # FreedNode
                  /\ KeyHash(n.key) % capacity = p[1]

\* Three nodes in two buckets of a table of capacity 3, one chain of two,
\* after a reserve was refused for a capacity below count.
C37_Witness ==
    /\ process = "running"
    /\ ht = TABLE
    /\ capacity = 3
    /\ count = 3
    /\ Len(hash_table[0]) = 2
    /\ Len(hash_table[1]) = 1
    /\ error_code = ERROR_INVALID_CAPACITY


\* ------------------------------------- dequeue: remove_item, clear, reserve
\* The array index of the j-th item from head of the circular container c,
\* as the loops compute it.
CircularIdx(c, j) == (c.head + j) % c.capacity

\* The array arr of the circular container c after the matching item at
\* offset j0 is dropped and the items after it are shifted one slot towards
\* head; the slot after the last item is not cleared here.
CircularShifted(c, arr, j0) ==
    [k \in DOMAIN arr |->
        IF \E j \in j0 .. (c.count - 2) : k = CircularIdx(c, j)
        THEN LET j == CHOOSE j \in j0 .. (c.count - 2) :
                          k = CircularIdx(c, j)
             IN  arr[CircularIdx(c, j + 1)]
        ELSE IF k = CircularIdx(c, j0) THEN NULL ELSE arr[k]]

\* dequeue_remove_item( q, data ): the first item from head that compares
\* equal to data is dropped and the later ones are shifted; the slot after
\* the last item is cleared through the index the loop ended on, which is
\* not reduced modulo capacity; tail becomes -1 when it was 0 and
\* capacity - 1 otherwise.
dequeue_remove_item(q, data) ==
    /\ process = "running"
    /\ IF NoHandle(q, dequeue)
       THEN ContainerFails(ERROR_NULL_PARAMETER) /\ UNCHANGED process
       ELSE LET found == {j \in 0 .. (dequeue.count - 1) :
                             dequeue.dequeue[CircularIdx(dequeue, j)] = data}
            IN  IF found = {}
                THEN ContainerFails(ERROR_NOT_FOUND) /\ UNCHANGED process
                ELSE LET j0 == CHOOSE j \in found : \A h \in found : j <= h
                         i  == dequeue.head + dequeue.count - 1
                     IN  IF i >= dequeue.capacity
                         THEN ContainerDies("undefined")
                         ELSE /\ dequeue' =
                                    [dequeue EXCEPT
                                        !.dequeue =
                                            [CircularShifted(dequeue,
                                                 dequeue.dequeue, j0)
                                                EXCEPT ![i] = NULL],
                                        !.count = @ - 1,
                                        !.tail =
                                            IF dequeue.tail = 0
                                            THEN dequeue.tail - 1
                                            ELSE dequeue.capacity - 1]
                              /\ order' = RemoveFirst(order, data)
                              /\ ret' = 0
                              /\ UNCHANGED <<error_code, queue, stack,
                                             process>>
    /\ UNCHANGED tableRest

\* dequeue_clear( q ): every item from head is freed through the wrapped
\* index, and its slot is cleared through the index itself.
dequeue_clear(q) ==
    /\ process = "running"
    /\ IF NoHandle(q, dequeue)
       THEN ContainerFails(ERROR_NULL_PARAMETER) /\ UNCHANGED process
       ELSE IF dequeue.head + dequeue.count - 1 >= dequeue.capacity
       THEN ContainerDies("undefined")
       ELSE /\ dequeue' =
                  [dequeue EXCEPT
                      !.dequeue =
                          [k \in DOMAIN dequeue.dequeue |->
                              IF /\ k >= dequeue.head
                                 /\ k < dequeue.head + dequeue.count
                              THEN NULL
                              ELSE dequeue.dequeue[k]],
                      !.count = 0,
                      !.head = 0,
                      !.tail = 0]
            /\ order' = << >>
            /\ ret' = 0
            /\ UNCHANGED <<error_code, queue, stack, process>>
    /\ UNCHANGED tableRest

\* dequeue_reserve( q, cap ): a capacity not above count is refused; the
\* items are copied to the front of a new array, head is 0 and tail is
\* count - 1.
dequeue_reserve(q, cap) ==
    /\ process = "running"
    /\ IF NoHandle(q, dequeue)
       THEN ContainerFails(ERROR_NULL_PARAMETER)
       ELSE IF cap <= dequeue.count
       THEN ContainerFails(ERROR_INVALID_CAPACITY)
       ELSE /\ dequeue' =
                  [dequeue EXCEPT
                      !.dequeue =
                          [j \in 0 .. (cap - 1) |->
                              IF j < dequeue.count
                              THEN dequeue.dequeue[CircularIdx(dequeue, j)]
                              ELSE NULL],
                      !.capacity = cap,
                      !.head = 0,
                      !.tail = dequeue.count - 1]
            /\ ret' = 0
            /\ UNCHANGED <<error_code, queue, stack, order>>
    /\ UNCHANGED tableVars

\* dequeue_destroy( q ): dequeue_clear, then the array and the struct are
\* freed and the caller's pointer is set to NULL.
dequeue_destroy(q) ==
    /\ process = "running"
    /\ IF NoHandle(q, dequeue)
       THEN ContainerFails(ERROR_NULL_PARAMETER) /\ UNCHANGED process
       ELSE IF dequeue.head + dequeue.count - 1 >= dequeue.capacity
       THEN ContainerDies("undefined")
       ELSE /\ dequeue' = Destroyed
            /\ order' = << >>
            /\ ret' = 0
            /\ UNCHANGED <<error_code, queue, stack, process>>
    /\ UNCHANGED tableRest

NextDequeueAll ==
    \/ \E q \in HandleArgs, data \in DataArgs : dequeue_insert_front(q, data)
    \/ \E q \in HandleArgs, data \in DataArgs : dequeue_insert_back(q, data)
    \/ \E q \in HandleArgs : dequeue_remove_front(q)
    \/ \E q \in HandleArgs : dequeue_remove_back(q)
    \/ \E q \in HandleArgs, data \in DataArgs : dequeue_remove_item(q, data)
    \/ \E q \in HandleArgs : dequeue_clear(q)
    \/ \E q \in HandleArgs, cap \in CapArgs : dequeue_reserve(q, cap)
    \/ \E q \in HandleArgs : dequeue_destroy(q)

SpecDequeueAll == InitDequeue /\ [][NextDequeueAll]_vars

\* C38: when dequeue_remove_item removes an item and returns 0, count is one
\* less than before, the remaining items keep their relative order, and
\* dequeue_peek_front and dequeue_peek_back return the first and the last
\* remaining item (NULL when none remains).
C38_RemoveItemKeepsEnds ==
    [][\A data \in Data :
          (/\ ~Gone(dequeue)
           /\ dequeue_remove_item("container", data)
           /\ process' = "running"
           /\ ret' = 0)
          => /\ dequeue'.count = dequeue.count - 1
             /\ order' = RemoveFirst(order, data)
             /\ dequeue_peek_front' =
                    (IF order' = << >> THEN NULL ELSE Head(order'))
             /\ dequeue_peek_back' =
                    (IF order' = << >> THEN NULL
                     ELSE order'[Len(order')])]_vars


\* --------------------- queue (circular array): remove_item, clear, reserve
\* queue_remove_item( q, data ): as in the dequeue, the slot after the last
\* item is cleared through the index the loop ended on, which is not
\* reduced modulo capacity; tail steps one slot back, wrapping at slot 0.
queue_remove_item(q, data) ==
    /\ process = "running"
    /\ IF NoHandle(q, queue) \/ data = NULL
       THEN ContainerFails(ERROR_NULL_PARAMETER) /\ UNCHANGED process
       ELSE LET found == {j \in 0 .. (queue.count - 1) :
                             queue.queue[CircularIdx(queue, j)] = data}
            IN  IF found = {}
                THEN ContainerFails(ERROR_NOT_FOUND) /\ UNCHANGED process
                ELSE LET j0 == CHOOSE j \in found : \A h \in found : j <= h
                         i  == queue.head + queue.count - 1
                     IN  IF i >= queue.capacity
                         THEN ContainerDies("undefined")
                         ELSE /\ queue' =
                                    [queue EXCEPT
                                        !.queue =
                                            [CircularShifted(queue,
                                                 queue.queue, j0)
                                                EXCEPT ![i] = NULL],
                                        !.count = @ - 1,
                                        !.tail =
                                            IF queue.tail = 0
                                            THEN queue.capacity - 1
                                            ELSE queue.tail - 1]
                              /\ order' = RemoveFirst(order, data)
                              /\ ret' = 0
                              /\ UNCHANGED <<error_code, dequeue, stack,
                                             process>>
    /\ UNCHANGED tableRest

\* queue_clear( q ): every item from head is freed and its slot cleared,
\* both through the wrapped index.
queue_clear(q) ==
    /\ process = "running"
    /\ IF NoHandle(q, queue)
       THEN ContainerFails(ERROR_NULL_PARAMETER)
       ELSE /\ queue' =
                  [queue EXCEPT
                      !.queue =
                          [k \in DOMAIN queue.queue |->
                              IF \E j \in 0 .. (queue.count - 1) :
                                     k = CircularIdx(queue, j)
                              THEN NULL
                              ELSE queue.queue[k]],
                      !.count = 0,
                      !.head = 0,
                      !.tail = 0]
            /\ order' = << >>
            /\ ret' = 0
            /\ UNCHANGED <<error_code, dequeue, stack>>
    /\ UNCHANGED tableVars

\* queue_reserve( q, cap ): a capacity below count is refused; the items are
\* copied to the front of a new array, head is 0 and tail is count - 1.
\* calloc( 0, ... ) may return NULL or a block of no slots.
queue_reserve(q, cap) ==
    /\ process = "running"
    /\ IF NoHandle(q, queue)
       THEN ContainerFails(ERROR_NULL_PARAMETER)
       ELSE IF cap < queue.count
       THEN ContainerFails(ERROR_INVALID_CAPACITY)
       ELSE \/ /\ cap = 0
               /\ ContainerFails(ERROR_MEMORY_ALLOCATION_FAILED)
            \/ /\ queue' =
                     [queue EXCEPT
                         !.queue =
                             [j \in 0 .. (cap - 1) |->
                                 IF j < queue.count
                                 THEN queue.queue[CircularIdx(queue, j)]
                                 ELSE NULL],
                         !.capacity = cap,
                         !.head = 0,
                         !.tail = queue.count - 1]
               /\ ret' = 0
               /\ UNCHANGED <<error_code, dequeue, stack, order>>
    /\ UNCHANGED tableVars

\* queue_destroy( q ): queue_clear, then the array and the struct are freed
\* and the caller's pointer is set to NULL.
queue_destroy(q) ==
    /\ process = "running"
    /\ IF NoHandle(q, queue)
       THEN ContainerFails(ERROR_NULL_PARAMETER)
       ELSE /\ queue' = Destroyed
            /\ order' = << >>
            /\ ret' = 0
            /\ UNCHANGED <<error_code, dequeue, stack>>
    /\ UNCHANGED tableVars

NextQueueAll ==
    \/ \E q \in HandleArgs, data \in DataArgs : queue_insert(q, data)
    \/ \E q \in HandleArgs : queue_remove(q)
    \/ \E q \in HandleArgs, data \in DataArgs : queue_remove_item(q, data)
    \/ \E q \in HandleArgs : queue_clear(q)
    \/ \E q \in HandleArgs, cap \in CapArgs : queue_reserve(q, cap)
    \/ \E q \in HandleArgs : queue_destroy(q)

SpecQueueAll == InitQueue /\ [][NextQueueAll]_vars

\* C39: in the circular-array queue, after any sequence of insert, remove,
\* remove_item, clear and reserve, head and tail lie in 0 .. capacity - 1
\* (where the array has a slot at all), and no call reads or writes the
\* array at an index outside 0 .. capacity - 1 (a call that does leaves the
\* process "undefined").
C39_IndicesInRange ==
    /\ process # "undefined"
    /\ (process = "running" /\ ~Gone(queue) /\ queue.capacity > 0)
          => /\ queue.head \in 0 .. (queue.capacity - 1)
             /\ queue.tail \in 0 .. (queue.capacity - 1)


\* ------------- queue (array): remove_item, reserve, clear, destroy
\* queue_remove_item of queue_array.c: the first item from index 0 that
\* compares equal to data is dropped and the later ones are shifted down.
array_queue_remove_item(q, data) ==
    /\ process = "running"
    /\ IF NoHandle(q, queue) \/ data = NULL
       THEN ContainerFails(ERROR_NULL_PARAMETER)
       ELSE LET found == {i \in 0 .. (queue.count - 1) :
                             queue.queue[i] = data}
            IN  IF found = {}
                THEN ContainerFails(ERROR_NOT_FOUND)
                ELSE LET i0 == CHOOSE i \in found : \A h \in found : i <= h
                     IN  /\ queue' = [queue EXCEPT
                                         !.queue = ArrayWithout(queue.queue,
                                                       queue.count, i0),
                                         !.count = @ - 1]
                         /\ order' = RemoveFirst(order, data)
                         /\ ret' = 0
                         /\ UNCHANGED <<error_code, dequeue, stack>>
    /\ UNCHANGED tableVars

\* queue_reserve of queue_array.c: a capacity not above count is refused;
\* the items are copied to a new array of the capacity asked for.
array_queue_reserve(q, cap) ==
    /\ process = "running"
    /\ IF NoHandle(q, queue)
       THEN ContainerFails(ERROR_NULL_PARAMETER)
       ELSE IF cap <= queue.count
       THEN ContainerFails(ERROR_INVALID_CAPACITY)
       ELSE /\ queue' = [queue EXCEPT
                            !.queue = [i \in 0 .. (cap - 1) |->
                                          IF i < queue.count
                                          THEN queue.queue[i]
                                          ELSE NULL],
                            !.capacity = cap]
            /\ ret' = 0
            /\ UNCHANGED <<error_code, dequeue, stack, order>>
    /\ UNCHANGED tableVars

\* queue_clear of queue_array.c: every item from index 0 is freed and its
\* slot cleared.
array_queue_clear(q) ==
    /\ process = "running"
    /\ IF NoHandle(q, queue)
       THEN ContainerFails(ERROR_NULL_PARAMETER)
       ELSE /\ queue' = [queue EXCEPT
                            !.queue = [k \in DOMAIN queue.queue |->
                                          IF k < queue.count THEN NULL
                                          ELSE queue.queue[k]],
                            !.count = 0]
            /\ order' = << >>
            /\ ret' = 0
            /\ UNCHANGED <<error_code, dequeue, stack>>
    /\ UNCHANGED tableVars

\* queue_destroy of queue_array.c: queue_clear, then the array and the
\* struct are freed and the caller's pointer is set to NULL.
array_queue_destroy(q) ==
    /\ process = "running"
    /\ IF NoHandle(q, queue)
       THEN ContainerFails(ERROR_NULL_PARAMETER)
       ELSE /\ queue' = Destroyed
            /\ order' = << >>
            /\ ret' = 0
            /\ UNCHANGED <<error_code, dequeue, stack>>
    /\ UNCHANGED tableVars

NextArrayQueue ==
    \/ \E q \in HandleArgs, data \in DataArgs : array_queue_insert(q, data)
    \/ \E q \in HandleArgs : array_queue_remove(q)
    \/ \E q \in HandleArgs, data \in DataArgs :
           array_queue_remove_item(q, data)
    \/ \E q \in HandleArgs, cap \in CapArgs : array_queue_reserve(q, cap)
    \/ \E q \in HandleArgs : array_queue_clear(q)
    \/ \E q \in HandleArgs : array_queue_destroy(q)

SpecArrayQueue == InitArrayQueue /\ [][NextArrayQueue]_vars

\* ------------------------------------------ queue (linked list): remove_item
\* The pointer a walk of the whole list ends on.
ListEnd == IF queue.chain = << >> THEN queue.head ELSE queue.last_next

\* queue_remove_item of queue_linked_list.c: the list is walked from head;
\* the first node whose data compares equal is unlinked and freed. A match
\* at head moves head to its successor; a match at tail moves tail to the
\* node before it and leaves that node's next pointer as it was; any other
\* match links the node before it to its successor. A walk that finds no
\* match ends at the next pointer of the last node.
list_queue_remove_item(q, data) ==
    /\ process = "running"
    /\ IF NoHandle(q, queue) \/ data = NULL
       THEN ContainerFails(ERROR_NULL_PARAMETER) /\ UNCHANGED process
       ELSE LET n     == Len(queue.chain)
                found == {i \in 1 .. n : queue.chain[i] = data}
            IN  IF found = {}
                THEN IF ListEnd = NULL
                     THEN ContainerFails(ERROR_NOT_FOUND) /\ UNCHANGED process
                     ELSE ContainerDies("undefined")
                ELSE LET p == CHOOSE i \in found : \A h \in found : i <= h
                     IN  /\ queue' =
                               IF p = 1
                               THEN ListAfterHead
                               ELSE IF p = queue.tail
                               THEN [queue EXCEPT
                                        !.chain = SubSeq(queue.chain, 1, p - 1),
                                        !.tail = p - 1,
                                        !.last_next = DANGLING,
                                        !.count = @ - 1]
                               ELSE [queue EXCEPT
                                        !.chain = SubSeq(queue.chain, 1, p - 1)
                                                  \o SubSeq(queue.chain,
                                                            p + 1, n),
                                        !.tail = IF queue.tail > p
                                                 THEN queue.tail - 1
                                                 ELSE queue.tail,
                                        !.count = @ - 1]
                         /\ order' = RemoveFirst(order, data)
                         /\ ret' = 0
                         /\ UNCHANGED <<error_code, dequeue, stack, process>>
    /\ UNCHANGED tableRest

\* queue_clear of queue_linked_list.c: the list is walked from head and every
\* node is freed.
list_queue_clear(q) ==
    /\ process = "running"
    /\ IF NoHandle(q, queue)
       THEN ContainerFails(ERROR_NULL_PARAMETER) /\ UNCHANGED process
       ELSE IF ListEnd # NULL
       THEN ContainerDies("undefined")
       ELSE /\ queue' = EmptyList
            /\ order' = << >>
            /\ ret' = 0
            /\ UNCHANGED <<error_code, dequeue, stack, process>>
    /\ UNCHANGED tableRest

\* queue_destroy of queue_linked_list.c: queue_clear, then the struct is
\* freed and the caller's pointer is set to NULL.
list_queue_destroy(q) ==
    /\ process = "running"
    /\ IF NoHandle(q, queue)
       THEN ContainerFails(ERROR_NULL_PARAMETER) /\ UNCHANGED process
       ELSE IF ListEnd # NULL
       THEN ContainerDies("undefined")
       ELSE /\ queue' = Destroyed
            /\ order' = << >>
            /\ ret' = 0
            /\ UNCHANGED <<error_code, dequeue, stack, process>>
    /\ UNCHANGED tableRest

NextListQueue ==
    \/ \E q \in HandleArgs, data \in DataArgs : list_queue_insert(q, data)
    \/ \E q \in HandleArgs : list_queue_remove(q)
    \/ \E q \in HandleArgs, data \in DataArgs : list_queue_remove_item(q, data)
    \/ \E q \in HandleArgs : list_queue_clear(q)
    \/ \E q \in HandleArgs : list_queue_destroy(q)

SpecListQueue == InitListQueue /\ [][NextListQueue]_vars

\* C40: in the linked-list queue, under insert, remove and remove_item, as
\* long as items remain head points to the first node and tail to the last,
\* the last node has no successor, the nodes hold the items inserted and not
\* yet removed in insertion order, and queue_peek returns the oldest of
\* them; no call reads a freed node.
C40_ListWellLinked ==
    /\ process # "undefined"
    /\ (process = "running" /\ ~Gone(queue) /\ queue.count > 0)
          => /\ queue.head = 1
             /\ queue.tail = Len(queue.chain)
             /\ queue.last_next = NULL
             /\ queue.chain = order
             /\ queue.count = Len(order)
             /\ list_queue_peek = Head(order)

============================================================================
